---- MODULE Spec2Model ----
(***************************************************************************)
(* A model of the OneBot v11 bridge of morecup/openclaw-qq.                *)
(*                                                                         *)
(*   - the backoff client (src/unnamed/part_000): socket lifecycle,        *)
(*     reconnect timers, echo-correlated sendWithResponse;                 *)
(*   - the fixed-delay client (src/src/client.ts): its socket lifecycle;   *)
(*   - the inbound message handler of startAccount (src/unnamed/part_001): *)
(*     its suspension points.                                              *)
(*                                                                         *)
(* A socket is one `new WebSocket(...)`; sockets and timers are numbered   *)
(* in creation order and 0 stands for null.                                *)
(***************************************************************************)
EXTENDS Integers, Sequences, FiniteSets, TLC

\* ------------------------------------------------------------------ bounds

\* Sockets one client creates in the request/response specifications.
MaxSockets == 2
\* Sockets one client creates in the lifecycle specifications (long enough
\* for the backoff delay to pass its cap).
MaxLifeSockets == 9
\* sendWithResponse calls made on one client.
MaxCalls == 2
\* sendWithResponse calls made on one client in the fair specification.
MaxLiveCalls == 1
\* Sockets one client creates in the re-entrant specification.
MaxReentrantSockets == 3
\* Sockets the fixed-delay client creates.
MaxLegacySockets == 5
\* Frames forwarded to the message handler of startAccount.
MaxHandlers == 2
\* connect() calls the host makes in the re-entrant specification.
MaxHostConnects == 2
\* Distinct message ids the account receives, enough to pass the cleanup
\* threshold between two runs of the cleanup.
MaxMsgIds == 1003
\* Longest text given to the text helpers, and largest chunk limit.
MaxTextLen == 4
MaxLimit == 3

\* Length of the longest text given to stripMarkdown.
MaxMdLen == 4

\* Calls of deliver in progress at a time.
MaxDelivers == 1

\* Calls of startAccount.
MaxStarts == 3

\* Iterations of the loop of splitMessage the model follows.
MaxIterations == 6

\* Length of the longest text of a direct message.
MaxBodyLen == 4

\* Redirects one download is followed through.
MaxHops == 4

\* A maxMessageLength below the length of the failure notice.
ShortMessageLength == 10

\* ------------------------------------------------------- program constants

\* part_000:14  private maxReconnectDelay = 60000
maxReconnectDelay == 60000
\* part_000:77  1000 * Math.pow(2, attempts)
BaseReconnectDelay == 1000
\* part_000:196 / client.ts:113  setTimeout(..., 5000) of sendWithResponse
RequestTimeoutMs == 5000
\* client.ts:61  setTimeout(() => this.connect(), 5000)
LegacyReconnectDelay == 5000
\* processedMsgIds.size > 1000 (part_001:1026)
CleanupThreshold == 1000

\* Echo tokens Math.random() can produce (two, so that a collision and a
\* never-issued token both exist).
Tokens == {"e1", "e2"}

VARIABLES
    \* --- OneBotClient fields
    ws,                 \* this.ws: 0 (null) or a socket
    sockets,            \* every WebSocket created: readyState, client listeners
    reconnectAttempts,  \* this.reconnectAttempts
    reconnectTimer,     \* this.reconnectTimer: 0 (null) or a timer handle
    timers,             \* every reconnect setTimeout created
    isAlive,            \* this.isAlive
    destroyed,          \* this.destroyed
    \* --- sendWithResponse
    calls,              \* every sendWithResponse call: promise, listener, timer
    wire,               \* number of frames written with ws.send
    \* --- history (not program state)
    hostConnects,       \* connect() calls made by the host
    armsSinceOpen,      \* reconnect timers armed since the last open event
    disconnectedIn,     \* "never", or what this.ws was at the first disconnect()
    \* --- startAccount (part_001:1004-1445)
    config,             \* the account's configuration (QQConfigSchema)
    handlers,           \* the invocations of the client.on("message") handler
                        \* that are suspended at an await
    selfId,             \* client.selfId: "null" or the id the lifecycle event gave
    processedMsgIds,    \* the Set of message ids seen
    memberCache,        \* keys of memberCache younger than one hour
    \* --- history (not program state)
    dispatched,         \* per inbound event that reached it, the calls of
                        \* dispatchReplyFromConfig made for it (counted up to 2)
    replied,            \* the events an admin command answered with a message
    last,               \* <<>>, or <<e>> for the frame e the client emitted last
    arrived,            \* <<>>, or <<f>> for the frame f that arrived last on a
                        \* socket with the client's listener attached
    \* --- the reply path (deliver, part_001:1296-1410) and its helpers
    arg,                \* the arguments of the helper function under study
    result,             \* <<>>, or <<v>> for the value v it returned
    delivering,         \* the deliver() calls in progress
    outbox,             \* the messages handed to the client's send methods
    \* --- calls in progress outside the handler
    download,           \* <<>>, or <<d>> for the downloadFile call in progress
    splitting,          \* <<>>, or <<l>> for the loop of a splitMessage call
    \* --- the registry of live clients (part_001:591) and the startAccount calls
    clients,            \* the Map clients: per account id the call whose
                        \* client it holds, 0 for no entry
    started             \* per startAccount call, its account and its client

clientVars == <<ws, sockets, reconnectAttempts, reconnectTimer, timers, isAlive,
                destroyed, hostConnects, armsSinceOpen, disconnectedIn>>
rpcVars == <<calls, wire>>
hostVars == <<download, splitting, clients, started>>
replyVars == <<arg, result, delivering, outbox, hostVars>>
pipeVars == <<config, handlers, selfId, processedMsgIds, memberCache,
              dispatched, replied, last, arrived, replyVars>>
vars == <<clientVars, rpcVars, pipeVars>>

\* config.ts:12, the default of maxMessageLength.
DefaultMaxMessageLength == 4000

\* part_001:1394: a text of 100 characters or more gets no voice message.
TtsMaxLen == 100

\* part_001:727, "Follow redirects (up to 3)".
RedirectLimit == 3

\* part_001:1437: the length of the failure notice.
NoticeLen == 16

\* ------------------------------------------------------------ configuration

\* The account ids of the host's configuration.
Accounts == {"default", "second"}

\* The account's own QQ id, and the senders: a user, a user on
\* config.blockedUsers, a user on config.admins, and the id the handler
\* ignores (2854196310, part_001:1139).
Bot == "bot"
User == "u1"
BlockedUser == "u2"
AdminUser == "u3"
SystemUser == "2854196310"

\* What the handler reads of the configuration (config.ts:6-18):
\*   requireMention       default false
\*   enableDeduplication  default true
\*   historyLimit         default 5; 0 turns the history off
\*   keywordTriggers      TRUE: the list holds the keyword; FALSE: no list
\*   blockedUsers, allowedGroups, admins   the lists, {} when absent or empty
\*   enableGuilds         read at part_001:1157; no key of the schema
\*   enableErrorNotify    default true; off in the configurations below, on
\*                        and off in NotifyConfigs
\*   enableTTS            default false
\*   maxMessageLength     default 4000
\*   autoApproveRequests  default false
\*   systemPrompt         optional; "" when absent
DefaultConfig ==
    [requireMention |-> FALSE, enableDeduplication |-> TRUE, historyLimit |-> 5,
     keywordTriggers |-> FALSE, blockedUsers |-> {}, allowedGroups |-> {},
     admins |-> {}, enableGuilds |-> FALSE, enableErrorNotify |-> FALSE,
     enableTTS |-> FALSE, maxMessageLength |-> DefaultMaxMessageLength,
     autoApproveRequests |-> FALSE, systemPrompt |-> ""]

\* The configurations of the trigger checks: every combination of mention
\* requirement, keyword list, block list, allow list, admin list and guilds.
Configs ==
    [requireMention : BOOLEAN, enableDeduplication : {TRUE}, historyLimit : {5},
     keywordTriggers : BOOLEAN, blockedUsers : {{}, {BlockedUser}},
     allowedGroups : {{}, {"g1"}}, admins : {{}, {AdminUser}},
     enableGuilds : BOOLEAN, enableErrorNotify : {FALSE}, enableTTS : {FALSE},
     maxMessageLength : {DefaultMaxMessageLength},
     autoApproveRequests : {FALSE}, systemPrompt : {""}]

\* ----------------------------------------------------------------- frames

NoEcho == "none"

\* An inbound frame as the handlers see it after JSON.parse: "bad" does not
\* parse, "heartbeat" is {post_type: meta_event, meta_event_type: heartbeat},
\* "event" is any other frame without echo, "resp" is an API response.
EventFrames ==
    [kind : {"bad", "heartbeat", "event"}, echo : {NoEcho},
     status : {"none"}, data : {"none"}, msg : {""}]

\* {echo, status: "ok", data} and {echo, status: "failed", msg?}: msg "" is
\* an absent or empty msg.
RespFrames ==
    [kind : {"resp"}, echo : Tokens, status : {"ok"},
     data : {"d1"}, msg : {""}]
    \cup
    [kind : {"resp"}, echo : Tokens, status : {"failed"},
     data : {"none"}, msg : {"", "m1"}]

Frames == EventFrames \cup RespFrames

NoFrame == [kind |-> "none", echo |-> NoEcho, status |-> "none",
            data |-> "none", msg |-> ""]

\* ------------------------------------------------------------ pure helpers

RECURSIVE Pow2(_)
Pow2(n) == IF n = 0 THEN 1 ELSE 2 * Pow2(n - 1)

Min(a, b) == IF a < b THEN a ELSE b

\* Variant: the delay without Math.min(..., maxReconnectDelay).
ReconnectDelayNoCap(attempts) == BaseReconnectDelay * Pow2(attempts)
\* part_000:77
ReconnectDelay(attempts) ==
    Min(BaseReconnectDelay * Pow2(attempts), maxReconnectDelay)

DisconnectCalled == disconnectedIn # "never"

\* What this.ws is: "null" or the readyState of the socket it names.
WsState == IF ws = 0 THEN "null" ELSE sockets[ws].rs

IsLive(s) == sockets[s].rs \in {"connecting", "open", "closing"}

\* Variant: tests this.ws alone, not its readyState.
WsNotNull == ws # 0

\* ws?.readyState === WebSocket.OPEN
WsOpen == ws # 0 /\ sockets[ws].rs = "open"

\* clearTimeout(id): a no-op on null and on a timer that fired or was cleared.
ClearTimer(tm, id) ==
    IF id # 0 /\ tm[id].st = "armed" THEN [tm EXCEPT ![id].st = "cleared"] ELSE tm

\* socket.close(): starts the closing handshake of a connecting or open socket.
CloseSocket(ss, s) ==
    IF s # 0 /\ ss[s].rs \in {"connecting", "open"}
    THEN [ss EXCEPT ![s].rs = "closing"] ELSE ss

\* The account of configuration cfg after startAccount, with the helper
\* arguments a: nothing applied, nothing being delivered, nothing sent.
InitState(cfg, a) ==
    /\ arg = a
    /\ result = <<>>
    /\ delivering = <<>>
    /\ outbox = <<>>
    /\ download = <<>>
    /\ splitting = <<>>
    /\ clients = [acc \in Accounts |-> 0]
    /\ started = <<>>
    /\ ws = 0
    /\ sockets = <<>>
    /\ reconnectAttempts = 0
    /\ reconnectTimer = 0
    /\ timers = <<>>
    /\ isAlive = FALSE
    /\ destroyed = FALSE
    /\ calls = <<>>
    /\ wire = 0
    /\ hostConnects = 0
    /\ armsSinceOpen = 0
    /\ disconnectedIn = "never"
    /\ config = cfg
    /\ handlers = <<>>
    /\ selfId = "null"
    /\ processedMsgIds = {}
    /\ memberCache = {}
    /\ dispatched = [e \in {} |-> 0]
    /\ replied = {}
    /\ last = <<>>
    /\ arrived = <<>>

InitWith(cfg) == InitState(cfg, <<>>)

\* An account with the defaults of the schema and no list configured.
Init == InitWith(DefaultConfig)

\* ------------------------------------------------- backoff client, lifecycle

\* connect(), part_000:33-73: clear the timer the field names, open a new
\* socket with the four listeners and store it in this.ws.
connect(tm) ==
    /\ timers' = ClearTimer(tm, reconnectTimer)
    /\ sockets' = Append(sockets, [rs |-> "connecting", listeners |-> TRUE])
    /\ ws' = Len(sockets) + 1
    /\ UNCHANGED reconnectTimer

\* Variant: no timer is armed.
scheduleReconnectNever == UNCHANGED <<timers, reconnectTimer, armsSinceOpen>>

\* scheduleReconnect(), part_000:75-84.
scheduleReconnect ==
    IF destroyed
    THEN UNCHANGED <<timers, reconnectTimer, armsSinceOpen>>
    ELSE /\ timers' = Append(timers, [st |-> "armed",
                                      delay |-> ReconnectDelay(reconnectAttempts),
                                      k |-> armsSinceOpen])
         /\ reconnectTimer' = Len(timers) + 1
         /\ armsSinceOpen' = armsSinceOpen + 1

\* The host calls connect() (startAccount, part_001:1439).
HostConnect(maxHost, maxSock) ==
    /\ hostConnects < maxHost
    /\ Len(sockets) < maxSock
    /\ ~DisconnectCalled
    /\ connect(timers)
    /\ hostConnects' = hostConnects + 1
    /\ UNCHANGED <<reconnectAttempts, isAlive, destroyed, armsSinceOpen,
                   disconnectedIn, rpcVars, pipeVars>>

\* The reconnect timer's callback, part_000:80-83.
ReconnectTimerFire(t, maxSock) ==
    /\ timers[t].st = "armed"
    /\ Len(sockets) < maxSock
    /\ reconnectAttempts' = reconnectAttempts + 1
    /\ connect([timers EXCEPT ![t].st = "fired"])
    /\ UNCHANGED <<isAlive, destroyed, hostConnects, armsSinceOpen,
                   disconnectedIn, rpcVars, pipeVars>>

\* ws "open", part_000:43-48.
OnOpen(s) ==
    /\ sockets[s].rs = "connecting"
    /\ sockets' = [sockets EXCEPT ![s].rs = "open"]
    /\ IF sockets[s].listeners
       THEN /\ isAlive' = TRUE
            /\ reconnectAttempts' = 0
       ELSE UNCHANGED <<isAlive, reconnectAttempts>>
    /\ armsSinceOpen' = 0
    /\ UNCHANGED <<ws, reconnectTimer, timers, destroyed, hostConnects,
                   disconnectedIn, rpcVars, pipeVars>>

\* ws "close", part_000:63-67. The socket emits it once, after an error, after
\* close(), or when the server ends the connection.
OnClose(s) ==
    /\ sockets[s].rs \in {"open", "closing"}
    /\ sockets' = [sockets EXCEPT ![s].rs = "closed"]
    /\ IF sockets[s].listeners
       THEN /\ isAlive' = FALSE
            /\ scheduleReconnect
       ELSE UNCHANGED <<isAlive, timers, reconnectTimer, armsSinceOpen>>
    /\ UNCHANGED <<ws, reconnectAttempts, destroyed, hostConnects,
                   disconnectedIn, rpcVars, pipeVars>>

\* Variant: the error listener arms the reconnect timer as well.
OnErrorReconnecting(s) ==
    /\ sockets[s].rs \in {"connecting", "open"}
    /\ sockets' = IF sockets[s].listeners
                  THEN CloseSocket([sockets EXCEPT ![s].rs = "closing"], ws)
                  ELSE [sockets EXCEPT ![s].rs = "closing"]
    /\ scheduleReconnect
    /\ UNCHANGED <<ws, reconnectAttempts, isAlive, destroyed, hostConnects,
                   disconnectedIn, rpcVars, pipeVars>>

\* ws "error", part_000:69-72: the failing socket goes on to emit close; the
\* listener closes whatever this.ws names.
OnError(s) ==
    /\ sockets[s].rs \in {"connecting", "open"}
    /\ sockets' = IF sockets[s].listeners
                  THEN CloseSocket([sockets EXCEPT ![s].rs = "closing"], ws)
                  ELSE [sockets EXCEPT ![s].rs = "closing"]
    /\ UNCHANGED <<ws, reconnectAttempts, reconnectTimer, timers, isAlive,
                   destroyed, hostConnects, armsSinceOpen, disconnectedIn,
                   rpcVars, pipeVars>>

\* removeAllListeners() of socket s also drops the sendWithResponse handlers
\* registered on it.
DropHandlers(cs, s) ==
    [c \in DOMAIN cs |-> IF cs[c].sock = s THEN [cs[c] EXCEPT !.on = FALSE] ELSE cs[c]]

\* Variant: disconnect() without clearTimeout(this.reconnectTimer).
DisconnectKeepsTimer ==
    /\ hostConnects > 0
    /\ destroyed' = TRUE
    /\ disconnectedIn' = IF DisconnectCalled THEN disconnectedIn ELSE WsState
    /\ reconnectTimer' = 0
    /\ sockets' = IF ws = 0 THEN sockets
                  ELSE CloseSocket([sockets EXCEPT ![ws].listeners = FALSE], ws)
    /\ calls' = IF ws = 0 THEN calls ELSE DropHandlers(calls, ws)
    /\ ws' = 0
    /\ UNCHANGED <<timers, reconnectAttempts, isAlive, hostConnects, armsSinceOpen,
                   wire, pipeVars>>

\* disconnect(), part_000:208-215.
Disconnect ==
    /\ hostConnects > 0
    /\ destroyed' = TRUE
    /\ disconnectedIn' = IF DisconnectCalled THEN disconnectedIn ELSE WsState
    /\ timers' = ClearTimer(timers, reconnectTimer)
    /\ reconnectTimer' = 0
    /\ sockets' = IF ws = 0 THEN sockets
                  ELSE CloseSocket([sockets EXCEPT ![ws].listeners = FALSE], ws)
    /\ calls' = IF ws = 0 THEN calls ELSE DropHandlers(calls, ws)
    /\ ws' = 0
    /\ UNCHANGED <<reconnectAttempts, isAlive, hostConnects, armsSinceOpen,
                   wire, pipeVars>>

\* --------------------------------------------- backoff client, request/response

Settled(c) == calls[c].st \in {"resolved", "rejected"}
Pending(c) == calls[c].st = "pending"

\* resolve()/reject() of a promise: the first one settles it, later ones are
\* no-ops. `f` is the frame that caused it (NoFrame for a timeout).
Settle(call, st, val, f) ==
    IF call.st = "pending"
    THEN [call EXCEPT !.st = st, !.val = val, !.by = f]
    ELSE call

\* reject(new Error(resp.msg || "API request failed")), part_000:181
RemoteErrorText(f) == IF f.msg # "" THEN f.msg ELSE "API request failed"

\* Variant: takes every frame that parses, without comparing resp.echo.
HandlerMatchesAnyFrame(call, f) == f.kind # "bad"

\* Variant: takes every response frame, whatever its echo.
HandlerMatchesAnyResponse(call, f) == f.kind = "resp"

\* Whether the handler of one call takes frame f as its response, part_000:175-176.
HandlerMatches(call, f) == f.kind # "bad" /\ f.echo = call.echo

\* The handler of one call on a frame that arrived on socket s, part_000:173-187.
\* this.ws?.off(...) removes it only when this.ws still is the socket it was
\* registered on.
\* Variant: resolves with resp.data without looking at resp.status.
settleIgnoringStatus(call, f) == Settle(call, "resolved", f.data, f)

\* part_000:178-182
settleByStatus(call, f) ==
    IF f.status = "ok"
    THEN Settle(call, "resolved", f.data, f)
    ELSE Settle(call, "rejected", RemoteErrorText(f), f)

handler(call, s, f) ==
    IF call.on /\ call.sock = s /\ HandlerMatches(call, f)
    THEN settleByStatus([call EXCEPT !.on = (ws # s), !.hits = Min(@ + 1, 2)], f)
    ELSE call

\* sendWithResponse(action, params), part_000:165-198, with the echo that
\* Math.random() produced.
sendWithResponse(echo) ==
    IF ~WsOpen
    THEN /\ calls' = Append(calls,
                [echo |-> NoEcho, sock |-> 0, on |-> FALSE, st |-> "rejected",
                 val |-> "WebSocket not open", tmr |-> "none", sent |-> FALSE,
                 hits |-> 0, by |-> NoFrame])
         /\ wire' = wire
    ELSE /\ calls' = Append(calls,
                [echo |-> echo, sock |-> ws, on |-> TRUE, st |-> "pending",
                 val |-> "none", tmr |-> "armed", sent |-> TRUE,
                 hits |-> 0, by |-> NoFrame])
         /\ wire' = wire + 1

SendWithResponse(echo, maxCalls) ==
    /\ hostConnects > 0
    /\ Len(calls) < maxCalls
    /\ sendWithResponse(echo)
    /\ UNCHANGED <<clientVars, pipeVars>>

\* Variant: a callback that gives up when this.ws is null.
timeoutWhenConnected(call) ==
    IF ws = 0
    THEN [call EXCEPT !.tmr = "fired"]
    ELSE Settle([call EXCEPT !.tmr = "fired",
                             !.on = IF ws = call.sock THEN FALSE ELSE call.on],
                "rejected", "Request timeout", NoFrame)

\* The callback of the 5 s timer of one call, part_000:193-196:
\* this.ws?.off(...) takes the handler off this.ws (a no-op when this.ws is
\* null or another socket), then reject.
timeout(call) ==
    Settle([call EXCEPT !.tmr = "fired",
                        !.on = IF ws # 0 /\ ws = call.sock THEN FALSE ELSE call.on],
           "rejected", "Request timeout", NoFrame)

\* The 5 s timer of one call fires. It is never cleared.
RequestTimeout(c) ==
    /\ c \in DOMAIN calls
    /\ calls[c].tmr = "armed"
    /\ calls' = [calls EXCEPT ![c] = timeout(calls[c])]
    /\ UNCHANGED <<clientVars, wire, pipeVars>>

\* ws "message" on socket s: the client's listener (part_000:50-61), then the
\* handler of every call registered on s, in one synchronous emit.
OnMessage(s, f) ==
    /\ sockets[s].rs \in {"open", "closing"}
    /\ UNCHANGED <<ws, sockets, reconnectAttempts, reconnectTimer, timers,
                   destroyed, hostConnects, armsSinceOpen, disconnectedIn,
                   wire, pipeVars>>
    /\ isAlive' = IF sockets[s].listeners /\ f.kind = "heartbeat" THEN TRUE ELSE isAlive
    /\ calls' = [c \in DOMAIN calls |-> handler(calls[c], s, f)]

\* ------------------------------------------ fixed-delay client (client.ts)

\* connect(), client.ts:30-68: no timer is cleared.
legacyConnect ==
    /\ sockets' = Append(sockets, [rs |-> "connecting", listeners |-> TRUE])
    /\ ws' = Len(sockets) + 1

\* The host calls connect() (startAccount, channel.ts:353).
LegacyHostConnect ==
    /\ hostConnects = 0
    /\ legacyConnect
    /\ hostConnects' = 1
    /\ UNCHANGED <<reconnectAttempts, reconnectTimer, timers, isAlive, destroyed,
                   armsSinceOpen, disconnectedIn, rpcVars, pipeVars>>

\* ws "open", client.ts:38-42.
LegacyOnOpen(s) ==
    /\ sockets[s].rs = "connecting"
    /\ sockets' = [sockets EXCEPT ![s].rs = "open"]
    /\ isAlive' = TRUE
    /\ UNCHANGED <<ws, reconnectAttempts, reconnectTimer, timers, destroyed,
                   hostConnects, armsSinceOpen, disconnectedIn, rpcVars, pipeVars>>

\* ws "close", client.ts:57-62: always arms the 5 s timer.
LegacyOnClose(s) ==
    /\ sockets[s].rs \in {"open", "closing"}
    /\ sockets' = [sockets EXCEPT ![s].rs = "closed"]
    /\ isAlive' = FALSE
    /\ timers' = Append(timers, [st |-> "armed", delay |-> LegacyReconnectDelay,
                                 k |-> 0])
    /\ reconnectTimer' = Len(timers) + 1
    /\ UNCHANGED <<ws, reconnectAttempts, destroyed, hostConnects, armsSinceOpen,
                   disconnectedIn, rpcVars, pipeVars>>

\* ws "error", client.ts:64-67.
LegacyOnError(s) ==
    /\ sockets[s].rs \in {"connecting", "open"}
    /\ sockets' = CloseSocket([sockets EXCEPT ![s].rs = "closing"], ws)
    /\ UNCHANGED <<ws, reconnectAttempts, reconnectTimer, timers, isAlive,
                   destroyed, hostConnects, armsSinceOpen, disconnectedIn,
                   rpcVars, pipeVars>>

\* The timer's callback, client.ts:61.
LegacyTimerFire(t) ==
    /\ timers[t].st = "armed"
    /\ Len(sockets) < MaxLegacySockets
    /\ timers' = [timers EXCEPT ![t].st = "fired"]
    /\ legacyConnect
    /\ UNCHANGED <<reconnectAttempts, reconnectTimer, isAlive, destroyed,
                   hostConnects, armsSinceOpen, disconnectedIn, rpcVars, pipeVars>>

\* disconnect(), client.ts:125-128: the listeners stay on the socket and
\* this.ws keeps naming it.
LegacyDisconnect ==
    /\ hostConnects > 0
    /\ disconnectedIn' = IF DisconnectCalled THEN disconnectedIn ELSE WsState
    /\ timers' = ClearTimer(timers, reconnectTimer)
    /\ sockets' = CloseSocket(sockets, ws)
    /\ UNCHANGED <<ws, reconnectAttempts, reconnectTimer, isAlive, destroyed,
                   hostConnects, armsSinceOpen, rpcVars, pipeVars>>

\* --------------------------------- startAccount: the "message" handler

\* config.enableDeduplication !== false (part_001:1149)
enableDeduplication == config.enableDeduplication
\* config.requireMention (part_001:1166; no groupSettings are configured)
requireMention == config.requireMention
\* effectiveHistoryLimit !== 0 (part_001:1167, 1268)
historyEnabled == config.historyLimit # 0

\* The parsed frames the client forwards, by what the handler reads of them:
\*   self   self_id, "null" when the frame carries none
\*   post   post_type (with the notice or meta sub-type)
\*   user   user_id
\*   group, guild   message_type is "group", is "guild" (neither: private)
\*   gid    group_id, "none" when absent
\*   mid    message_id, 0 when absent
\*   file   the notice's file: "none", "url" (file.url), "id" (file.id only)
\*   segs   the types of the message segments: at_user, at_self and at_all
\*          are at segments of a member, of the account and of "all";
\*          file_id is a file segment with file_id and no url
\*   text   the text after the segments are resolved: "plain", "kw" (holds
\*          the keyword), "poke" (holds the poke placeholder), "cmd" (starts
\*          with /status), "empty"
\*   replyTo  who wrote the message a reply segment names: "self", "other",
\*          "none" without reply segment
\*   target target_id of a poke notice
Event(post, user, kind, gid, mid, segs) ==
    [self |-> Bot, post |-> post, user |-> user, group |-> (kind = "group"),
     guild |-> (kind = "guild"), gid |-> gid, mid |-> mid, file |-> "none",
     segs |-> segs, text |-> "plain", replyTo |-> "none", target |-> "none"]

MetaLifecycle == Event("meta_lifecycle", Bot, "private", "none", 0, <<>>)
ApiResponse   == Event("none", Bot, "private", "none", 0, <<>>)
PrivateText   == Event("message", User, "private", "none", 1, <<"text">>)
GroupAt       == Event("message", User, "group", "g1", 2, <<"at_user", "text">>)
SelfEcho      == [Event("message", Bot, "group", "g1", 3, <<"text">>)
                     EXCEPT !.self = "null"]
GroupUpload   == [Event("notice_group_upload", User, "group", "g1", 0, <<>>)
                     EXCEPT !.file = "id"]
ReplyForward  == [Event("message", User, "private", "none", 4,
                        <<"reply", "forward", "file_id">>)
                     EXCEPT !.replyTo = "other"]

PipeEvents == {MetaLifecycle, ApiResponse, PrivateText, GroupAt, SelfEcho,
               GroupUpload, ReplyForward}

\* The messages of the trigger checks, as a user sends them in group g1.
GroupPlain      == Event("message", User, "group", "g1", 5, <<"text">>)
GroupAtSelf     == Event("message", User, "group", "g1", 6, <<"at_self", "text">>)
GroupAtAll      == Event("message", User, "group", "g1", 7, <<"at_all", "text">>)
GroupKeyword    == [GroupPlain EXCEPT !.mid = 8, !.text = "kw"]
GroupReplySelf  == [Event("message", User, "group", "g1", 9, <<"reply", "text">>)
                       EXCEPT !.replyTo = "self"]
GroupReplyOther == [GroupReplySelf EXCEPT !.mid = 10, !.replyTo = "other"]
GroupPokeText   == [GroupPlain EXCEPT !.mid = 11, !.text = "poke"]
GroupPoke       == [Event("notice_poke", User, "group", "g1", 0, <<>>)
                       EXCEPT !.target = Bot]
PokeOfOther     == [GroupPoke EXCEPT !.target = User]
PrivatePoke     == [GroupPoke EXCEPT !.group = FALSE, !.gid = "none"]
PrivateKeyword  == [PrivateText EXCEPT !.mid = 12, !.text = "kw"]
PrivateCommand  == [PrivateText EXCEPT !.mid = 13, !.text = "cmd"]
PrivateEmpty    == [PrivateText EXCEPT !.mid = 14, !.text = "empty", !.segs = <<>>]
GroupCommand    == [GroupPlain EXCEPT !.mid = 15, !.text = "cmd"]

GroupContents ==
    {GroupPlain, GroupAtSelf, GroupAtAll, GroupKeyword, GroupReplySelf,
     GroupReplyOther, GroupPokeText, GroupPoke, GroupCommand}

PrivateContents ==
    {PrivateText, PrivateKeyword, PrivateCommand, PrivateEmpty, PrivatePoke}

\* The same contents sent in a guild channel, in another group, by the
\* other senders, and in a frame without self_id; each is a message of its
\* own, with its own message_id.
Renumbered(e, n) == IF e.mid = 0 THEN e ELSE [e EXCEPT !.mid = @ + n]
InGuild(e)  == [Renumbered(e, 20) EXCEPT !.group = FALSE, !.guild = TRUE,
                                        !.gid = "none"]
InGroup2(e) == [Renumbered(e, 40) EXCEPT !.gid = "g2"]
From(u, e)  ==
    [Renumbered(e, CASE u = BlockedUser -> 100 [] u = AdminUser -> 200
                     [] u = SystemUser -> 300 [] OTHER -> 400)
        EXCEPT !.user = u]
NoSelfId(e) == [Renumbered(e, 1000) EXCEPT !.self = "null"]

TriggerEvents ==
    LET contents == GroupContents \cup PrivateContents \cup {PokeOfOther}
        placed   == contents
                    \cup {InGuild(e) : e \in GroupContents \ {GroupPoke}}
                    \cup {InGroup2(e) : e \in GroupContents}
        sent     == placed
                    \cup {From(u, e) : u \in {BlockedUser, AdminUser}, e \in placed}
                    \cup {From(SystemUser, PrivateText), From(Bot, GroupAtSelf),
                          From(Bot, PrivateText), From(Bot, GroupPoke)}
    IN  sent \cup {NoSelfId(e) : e \in sent}

\* Where a handler is suspended: the await it is at.
AwaitPoints == {"download_notice", "rpc_group_file_url", "rpc_member",
                "rpc_forward", "rpc_file_url", "rpc_get_file", "download_file",
                "get_msg", "history", "record_session", "dispatch"}

At(pc, i) == [pc |-> pc, i |-> i]

\* How a handler ends: "done" is a return or the end of the function, "cmd"
\* the return of an admin command after its answer was sent.
Finished == {"done", "cmd"}

\* part_001:1062-1069: a poke of the account becomes a message with the
\* placeholder text, a group message when the notice has a group_id.
PokeMessage(ev) ==
    [ev EXCEPT !.post = "message", !.group = (ev.gid # "none"), !.guild = FALSE,
               !.segs = <<"text">>, !.text = "poke"]

\* part_001:1117-1125: a group_upload notice becomes a group message that
\* names the file.
UploadMessage(ev) ==
    [ev EXCEPT !.post = "message", !.group = TRUE, !.guild = FALSE,
               !.segs = <<"text">>, !.text = "plain"]

\* The event as the synchronous head of the handler leaves it, part_001:1062-1069.
Classified(ev, sid) ==
    IF ev.post = "notice_poke" /\ sid # "null" /\ ev.target = sid
    THEN PokeMessage(ev) ELSE ev

\* Variant: no keyword triggers.
IsTriggeredWithoutKeywords(msg) == ~msg.group \/ msg.text = "poke"

\* part_001:1277-1280: direct chats, the poke placeholder and a configured
\* keyword trigger without a mention.
IsTriggered(msg) ==
    \/ ~msg.group
    \/ msg.text = "poke"
    \/ (config.keywordTriggers /\ msg.text = "kw")

\* part_001:1287-1291: an at segment of the account or of "all", or a reply
\* to a message of the account; `repl` is the sender of the message getMsg
\* returned, "none" when there is none.
Mentioned(msg, repl) ==
    \/ \E j \in DOMAIN msg.segs : msg.segs[j] \in {"at_self", "at_all"}
    \/ repl = "self"

\* Variant: no mention check.
PassesTriggerUngated(msg, sid, repl) == TRUE

\* Variant: the mention check is made whatever requireMention says.
PassesTriggerAlwaysGated(msg, sid, repl) ==
    LET me == IF sid # "null" THEN sid ELSE msg.self
    IN  IF (msg.group \/ msg.guild) /\ ~IsTriggered(msg)
        THEN me # "null" /\ Mentioned(msg, repl)
        ELSE TRUE

\* part_001:1282-1293: whether the handler goes on to the dispatcher.
PassesTrigger(msg, sid, repl) ==
    LET me == IF sid # "null" THEN sid ELSE msg.self
    IN  IF (msg.group \/ msg.guild) /\ requireMention /\ ~IsTriggered(msg)
        THEN me # "null" /\ Mentioned(msg, repl)
        ELSE TRUE

\* Variant: no block list.
FilteredIgnoringBlockList(msg) ==
    \/ (msg.group /\ config.allowedGroups # {} /\ msg.gid \notin config.allowedGroups)
    \/ (config.admins # {} /\ msg.user \notin config.admins)

\* Variant: the allow list is applied to every chat, not to groups only.
FilteredAllowListEverywhere(msg) ==
    \/ msg.user \in config.blockedUsers
    \/ (config.allowedGroups # {} /\ msg.gid \notin config.allowedGroups)
    \/ (config.admins # {} /\ msg.user \notin config.admins)

\* part_001:1222-1226: blockedUsers, allowedGroups, admins.
Filtered(msg) ==
    \/ msg.user \in config.blockedUsers
    \/ (msg.group /\ config.allowedGroups # {} /\ msg.gid \notin config.allowedGroups)
    \/ (config.admins # {} /\ msg.user \notin config.admins)

\* part_001:1228-1240: /status (or /help) of an admin, outside guilds.
AdminCommand(msg) ==
    ~msg.guild /\ msg.user \in config.admins /\ msg.text = "cmd"

\* part_001:1222-1293 and 1428: from the filters to the session record,
\* starting after await `from`.
AfterFilters(msg, from, sid, repl) ==
    LET hasReply == \E j \in DOMAIN msg.segs : msg.segs[j] = "reply"
        wantsHistory == msg.group /\ requireMention /\ historyEnabled
    IN  IF from = "filters" /\ Filtered(msg) THEN At("done", 0)
        ELSE IF from = "filters" /\ AdminCommand(msg) THEN At("cmd", 0)
        ELSE IF from = "filters" /\ hasReply THEN At("get_msg", 0)
        ELSE IF from \in {"filters", "get_msg"} /\ wantsHistory THEN At("history", 0)
        ELSE IF PassesTrigger(msg, sid, repl) THEN At("record_session", 0)
        ELSE At("done", 0)

\* seg.data.qq of an at segment.
AtTarget(seg) == IF seg = "at_self" THEN Bot ELSE User

\* The await of one segment, part_001:1173-1217 and getFileUrl 768-805.
SegAwait(msg, seg, cache) ==
    CASE seg \in {"at_user", "at_self"} ->
            IF msg.group /\ <<msg.gid, AtTarget(seg)>> \notin cache
            THEN "rpc_member" ELSE "none"
      [] seg = "forward" -> "rpc_forward"
      [] seg = "file_url" -> "download_file"
      [] seg = "file_id" -> IF msg.group THEN "rpc_file_url" ELSE "rpc_get_file"
      [] OTHER -> "none"

\* The segment loop from segment i on: the first await it reaches, or the
\* filters after it.
RECURSIVE SegLoop(_, _, _, _)
SegLoop(msg, i, sid, cache) ==
    IF i > Len(msg.segs) THEN AfterFilters(msg, "filters", sid, "none")
    ELSE IF SegAwait(msg, msg.segs[i], cache) # "none"
         THEN At(SegAwait(msg, msg.segs[i], cache), i)
         ELSE SegLoop(msg, i + 1, sid, cache)

\* Variant: only the id the lifecycle event gave is compared.
FromSelfLearnedOnly(ev, sid) == sid # "null" /\ ev.user = sid

\* part_001:1133-1137: client.getSelfId() ?? event.self_id names the sender.
FromSelf(ev, sid) ==
    LET me == IF sid # "null" THEN sid ELSE ev.self
    IN  me # "null" /\ ev.user = me

\* part_001:1130-1147: a message, not of the account, not of 2854196310,
\* not empty.
ReachesDedup(ev, sid) ==
    /\ ev.post = "message"
    /\ ~FromSelf(ev, sid)
    /\ ev.user # SystemUser
    /\ ~(ev.text = "empty" /\ ev.segs = <<>>)

\* part_001:1130-1157: the returns before the segments are resolved.
DroppedEarly(ev, sid, seen) ==
    \/ ~ReachesDedup(ev, sid)
    \/ (enableDeduplication /\ ev.mid # 0 /\ ev.mid \in seen)
    \/ (ev.guild /\ ~config.enableGuilds)

\* part_001:1149-1153: processedMsgIds after the handler's deduplication.
Deduplicated(ev, sid, seen) ==
    IF ReachesDedup(ev, sid) /\ enableDeduplication /\ ev.mid # 0
    THEN seen \cup {ev.mid} ELSE seen

\* From the start of the handler to its first await, part_001:1048-1220.
FirstAwait(ev, sid, seen, cache) ==
    CASE ev.post \in {"meta_lifecycle", "none"} -> At("done", 0)
      [] ev.post = "notice_group_upload" ->
            IF ev.file = "url" THEN At("download_notice", 0)
            ELSE IF ev.file = "id" THEN At("rpc_group_file_url", 0)
            ELSE At("done", 0)
      [] OTHER ->
            IF DroppedEarly(Classified(ev, sid), sid, seen) THEN At("done", 0)
            ELSE SegLoop(Classified(ev, sid), 1, sid, cache)

\* A notice that became a message (part_001:1122-1125) runs the same filters;
\* its one text segment needs no await.
AfterNotice(ev, sid, seen) ==
    IF DroppedEarly(UploadMessage(ev), sid, seen) THEN At("done", 0)
    ELSE AfterFilters(UploadMessage(ev), "filters", sid, "none")

\* Variant: a failed lookup ends the handler.
AfterSegmentAborting(msg, i, ok, sid, cache) ==
    IF ok THEN SegLoop(msg, i + 1, sid, cache) ELSE At("done", 0)

\* The last await of segment i has settled, part_001:1184-1185, 1201, 1207-1216:
\* a rejection is caught (or comes back as null) and the loop goes on with
\* the next segment either way.
AfterSegment(msg, i, ok, sid, cache) == SegLoop(msg, i + 1, sid, cache)

\* Where the handler goes when the promise it awaits settles; `ok` is
\* whether the awaited call produced what was asked for (a url, a name, the
\* replied message).
Resumed(h, ok, sid, seen, cache) ==
    CASE h.pc = "rpc_group_file_url" ->
            IF ok THEN At("download_notice", 0) ELSE AfterNotice(h.ev, sid, seen)
      [] h.pc = "download_notice" -> AfterNotice(h.ev, sid, seen)
      [] h.pc = "rpc_file_url" ->
            IF ok THEN At("download_file", h.i) ELSE At("rpc_get_file", h.i)
      [] h.pc = "rpc_get_file" ->
            IF ok THEN At("download_file", h.i)
            ELSE AfterSegment(h.msg, h.i, ok, sid, cache)
      [] h.pc \in {"rpc_member", "rpc_forward", "download_file"} ->
            AfterSegment(h.msg, h.i, ok, sid, cache)
      [] h.pc = "get_msg" ->
            AfterFilters(h.msg, "get_msg", sid, IF ok THEN h.msg.replyTo ELSE "none")
      [] h.pc = "history" -> AfterFilters(h.msg, "history", sid, h.repl)
      [] h.pc = "record_session" -> At("dispatch", 0)  \* taken to resolve
      [] OTHER -> At("done", 0)

\* ------------------------------------------------ text helpers (pure)

\* Texts are sequences of characters.
Chars == {"a", "b"}
Texts == UNION {[1..n -> Chars] : n \in 0..MaxTextLen}

\* The position String.prototype.slice takes for index k of a string of
\* length len: a negative index counts from the end, and the result is
\* clamped to 0..len.
SliceIndex(len, k) == IF k < 0 THEN (IF len + k < 0 THEN 0 ELSE len + k)
                      ELSE Min(k, len)

\* String.prototype.slice(from) and slice(0, to) on a sequence.
SliceFrom(t, from) == SubSeq(t, SliceIndex(Len(t), from) + 1, Len(t))
SliceTo(t, to) == SubSeq(t, 1, SliceIndex(Len(t), to))

\* The while loop of splitMessage, part_001:607-611.
RECURSIVE SplitLoop(_, _, _)
SplitLoop(chunks, current, limit) ==
    IF Len(current) > 0
    THEN SplitLoop(Append(chunks, SliceTo(current, limit)),
                   SliceFrom(current, limit), limit)
    ELSE chunks

\* Variant: without the early return for a text within the limit.
splitMessageLoopOnly(text, limit) == SplitLoop(<<>>, text, limit)

\* splitMessage(text, limit), part_001:604-613.
splitMessage(text, limit) ==
    IF Len(text) <= limit THEN <<text>> ELSE SplitLoop(<<>>, text, limit)

\* splitMessage is applied to the arguments.
Split ==
    /\ result = <<>>
    /\ result' = <<splitMessage(arg.text, arg.limit)>>
    /\ UNCHANGED <<hostVars, arg, delivering, outbox, config, handlers, selfId,
                   processedMsgIds, memberCache, dispatched, replied, last,
                   arrived, clientVars, rpcVars>>

\* config.maxMessageLength || 4000, part_001:1361: 0 is falsy, a negative
\* number is not.
EffectiveLimit(n) == IF n = 0 THEN DefaultMaxMessageLength ELSE n

\* deliver calls splitMessage(text, config.maxMessageLength || 4000),
\* part_001:1361 and 604-607: the early return, or the entry of the loop.
SplitStart ==
    /\ result = <<>>
    /\ splitting = <<>>
    /\ LET limit == EffectiveLimit(arg.limit)
       IN  IF Len(arg.text) <= limit
           THEN /\ result' = <<<<arg.text>>>>
                /\ UNCHANGED splitting
           ELSE /\ splitting' = <<[chunks |-> <<>>, current |-> arg.text,
                                   limit |-> limit]>>
                /\ UNCHANGED result
    /\ UNCHANGED <<arg, delivering, outbox, download, clients, started, config,
                   handlers, selfId, processedMsgIds, memberCache, dispatched,
                   replied, last, arrived, clientVars, rpcVars>>

\* One test of the loop condition of splitMessage, part_001:608-612: an
\* iteration pushes a chunk and cuts current, or the loop ends and
\* the chunks are returned.
SplitStep ==
    /\ splitting # <<>>
    /\ LET l == splitting[1]
       IN  IF Len(l.current) > 0
           THEN /\ Len(l.chunks) < MaxIterations
                /\ splitting' = <<[l EXCEPT
                                     !.chunks = Append(@, SliceTo(l.current, l.limit)),
                                     !.current = SliceFrom(l.current, l.limit)]>>
                /\ UNCHANGED result
           ELSE /\ splitting' = <<>>
                /\ result' = <<l.chunks>>
    /\ UNCHANGED <<arg, delivering, outbox, download, clients, started, config,
                   handlers, selfId, processedMsgIds, memberCache, dispatched,
                   replied, last, arrived, clientVars, rpcVars>>

RemoveAt(seq, h) == SubSeq(seq, 1, h - 1) \o SubSeq(seq, h + 1, Len(seq))

\* ------------------------------------------------ deliver, text-only path

\* The chat deliver answers to: isGroup, isGuild, groupId and userId of the
\* handler (part_001:1154-1160).
Chat(kind, gid, user) == [kind |-> kind, gid |-> gid, user |-> user]

ChatOf(msg) ==
    Chat(IF msg.group THEN "group" ELSE IF msg.guild THEN "guild" ELSE "private",
         msg.gid, msg.user)

\* Variant: every chunk of a group reply is prefixed.
MentionsSenderEveryChunk(kind, i) == kind = "group"

\* part_001:1364: the at-mention of the sender is put in front of chunk i.
MentionsSender(kind, i) == kind = "group" /\ i = 1

\* The message deliver hands to sendGroupMsg, sendGuildChannelMsg or
\* sendPrivateMsg for chunk i (part_001:1362-1367); re is what deliver was
\* called for, the event of a notice or the payload of a reply.
ChunkMessage(chat, re, chunks, i) ==
    [to |-> chat, re |-> re, mention |-> MentionsSender(chat.kind, i),
     body |-> chunks[i], tts |-> FALSE]

\* The voice message of lines 1394-1400.
TtsMessage(chat, re, text) ==
    [to |-> chat, re |-> re, mention |-> FALSE, body |-> text, tts |-> TRUE]

\* part_001:1394: hasText, not a guild, config.enableTTS, a text shorter than
\* 100 characters, no image.
WantsTts(chat, text, tts) == chat.kind # "guild" /\ tts /\ Len(text) < TtsMaxLen

\* deliver(payload) for a payload with text and no media, part_001:1306-1367,
\* up to its first await: the text is split and the first chunk is sent.
\* limit is config.maxMessageLength and tts config.enableTTS; caught tells
\* the call of the catch block (line 1437) from the dispatcher's.
Delivering(chat, re, text, limit, tts, caught) ==
    [chat |-> chat, re |-> re, text |-> text, tts |-> tts, caught |-> caught,
     chunks |-> splitMessage(text, limit), i |-> 1, pc |-> "chunk"]

FirstMessage(d) == ChunkMessage(d.chat, d.re, d.chunks, 1)

\* deliver called by the dispatcher with a reply.
DeliverStart ==
    /\ delivering = <<>>
    /\ result = <<>>
    /\ LET d == Delivering(Chat(arg.kind, "g1", User), arg, arg.text,
                           arg.limit, arg.tts, FALSE)
       IN  /\ outbox' = Append(outbox, FirstMessage(d))
           /\ delivering' = <<d>>
    /\ UNCHANGED <<hostVars, arg, result, config, handlers, selfId, processedMsgIds,
                   memberCache, dispatched, replied, last, arrived, clientVars,
                   rpcVars>>

\* The await of the k-th deliver in progress settles (the send, or the sleep
\* between chunks): the next chunk is sent, or after the last chunk the
\* voice message, or deliver returns.
DeliverResume(k) ==
    /\ k \in DOMAIN delivering
    /\ LET d == delivering[k]
       IN  IF d.pc = "chunk" /\ d.i < Len(d.chunks)
           THEN /\ outbox' = Append(outbox, ChunkMessage(d.chat, d.re, d.chunks, d.i + 1))
                /\ delivering' = [delivering EXCEPT ![k].i = d.i + 1]
                /\ UNCHANGED result
           ELSE IF d.pc = "chunk" /\ WantsTts(d.chat, d.text, d.tts)
           THEN /\ outbox' = Append(outbox, TtsMessage(d.chat, d.re, d.text))
                /\ delivering' = [delivering EXCEPT ![k].pc = "tts"]
                /\ UNCHANGED result
           ELSE /\ delivering' = RemoveAt(delivering, k)
                /\ result' = IF d.caught THEN result ELSE <<"delivered">>
                /\ UNCHANGED outbox
    /\ UNCHANGED <<hostVars, arg, config, handlers, selfId, processedMsgIds, memberCache,
                   dispatched, replied, last, arrived, clientVars, rpcVars>>

\* The text of the failure notice, part_001:1437: 16 characters, none of
\* them a Markdown marker.
Notice == [k \in 1..NoticeLen |-> "n"]

\* Variant: the catch block ignores the setting.
NotifiesAlways(cfg) == TRUE

\* part_001:1437: the catch block of the dispatch delivers the notice when
\* config.enableErrorNotify is set.
Notifies(cfg) == cfg.enableErrorNotify

\* ------------------------------------------- the handler, step by step

\* The calls of dispatchReplyFromConfig made for event e so far.
Dispatches(e) == IF e \in DOMAIN dispatched THEN dispatched[e] ELSE 0

\* The history after the handler of ev called dispatchReplyFromConfig.
Dispatch(ev) ==
    [e \in DOMAIN dispatched \cup {ev} |->
        IF e # ev THEN dispatched[e]
        ELSE IF Dispatches(ev) < 2 THEN Dispatches(ev) + 1 ELSE 2]

\* The listener startAccount registers, client.on("message", async (event)
\* => ...), part_001:1048, called with ev: it runs to its first await (or to
\* its end).
onMessage(ev) ==
    /\ Len(handlers) < MaxHandlers
    /\ LET to == FirstAwait(ev, selfId, processedMsgIds, memberCache)
       IN  /\ handlers' =
                IF to.pc \in Finished THEN handlers
                ELSE Append(handlers, [ev |-> ev, msg |-> Classified(ev, selfId),
                                       pc |-> to.pc, i |-> to.i, repl |-> "none"])
           /\ replied' = IF to.pc = "cmd" THEN replied \cup {ev} ELSE replied
    /\ selfId' = IF ev.post = "meta_lifecycle" THEN Bot ELSE selfId
    /\ processedMsgIds' = Deduplicated(Classified(ev, selfId), selfId, processedMsgIds)
    /\ last' = <<ev>>
    /\ UNCHANGED <<config, memberCache, dispatched>>

\* The client emits the frame ev and the listener runs.
HandlerStart(ev) ==
    /\ onMessage(ev)
    /\ UNCHANGED <<arrived, replyVars, clientVars, rpcVars>>

\* The promise a suspended handler awaits settles and the handler runs to
\* its next await (or to its end). A rejected dispatchReplyFromConfig is
\* caught (part_001:1436-1437) and the catch block calls deliver with the
\* notice without awaiting it.
HandlerResume(h, ok) ==
    /\ h \in DOMAIN handlers
    /\ LET hd == handlers[h]
           cache == IF hd.pc = "rpc_member" /\ ok
                    THEN memberCache \cup {<<hd.msg.gid, AtTarget(hd.msg.segs[hd.i])>>}
                    ELSE memberCache
           notice == hd.pc \in {"rpc_group_file_url", "download_notice"}
           to == Resumed(hd, ok, selfId, processedMsgIds, cache)
           becomesMessage == notice /\ to.pc # "download_notice"
       IN  /\ memberCache' = cache
           /\ processedMsgIds' =
                IF becomesMessage
                THEN Deduplicated(UploadMessage(hd.ev), selfId, processedMsgIds)
                ELSE processedMsgIds
           /\ handlers' =
                IF to.pc \in Finished THEN RemoveAt(handlers, h)
                ELSE [handlers EXCEPT
                        ![h].pc = to.pc,
                        ![h].i = to.i,
                        ![h].msg = IF becomesMessage THEN UploadMessage(hd.ev) ELSE @,
                        ![h].repl = IF hd.pc = "get_msg" /\ ok
                                    THEN hd.msg.replyTo ELSE @]
           /\ dispatched' = IF to.pc = "dispatch" THEN Dispatch(hd.ev)
                            ELSE dispatched
           /\ replied' = IF to.pc = "cmd" THEN replied \cup {hd.ev} ELSE replied
           /\ IF hd.pc = "dispatch" /\ ~ok /\ Notifies(config)
              THEN LET d == Delivering(ChatOf(hd.msg), hd.ev, Notice,
                                       config.maxMessageLength, config.enableTTS,
                                       TRUE)
                   IN  /\ Len(delivering) < MaxDelivers
                       /\ outbox' = Append(outbox, FirstMessage(d))
                       /\ delivering' = Append(delivering, d)
              ELSE UNCHANGED <<delivering, outbox>>
    /\ UNCHANGED <<hostVars, config, selfId, last, arrived, arg, result, clientVars, rpcVars>>

\* getCachedMemberName, part_001:510-517: an entry older than one hour is
\* deleted at the next lookup and counts as absent.
CacheEntryExpires(k) ==
    /\ k \in memberCache
    /\ memberCache' = memberCache \ {k}
    /\ UNCHANGED <<config, handlers, selfId, processedMsgIds, dispatched, replied, last, arrived, replyVars,
                   clientVars, rpcVars>>

\* The hourly timer of startAccount, part_001:1025-1027: the set is emptied
\* when it holds more than 1000 ids, and left alone otherwise.
CleanupTick ==
    /\ processedMsgIds' = IF Cardinality(processedMsgIds) > CleanupThreshold
                          THEN {} ELSE processedMsgIds
    /\ UNCHANGED <<config, handlers, selfId, memberCache, dispatched, replied, last, arrived, replyVars,
                   clientVars, rpcVars>>

\* A second account started in the same process: its startAccount has its
\* own client, selfId and processedMsgIds (part_001:1017-1024), and shares
\* the module's memberCache (507). What its handler does to this account's
\* state is the cache write of line 1184.
OtherAccountCaches(k) ==
    /\ memberCache' = memberCache \cup {k}
    /\ UNCHANGED <<config, handlers, selfId, processedMsgIds, dispatched, replied,
                   last, arrived, replyVars, clientVars, rpcVars>>

\* -------------------------------------------------------- stripMarkdown

\* The characters of the texts given to stripMarkdown: the header and the
\* emphasis marker, white space and a letter.
MdChars == {"#", "*", " ", "a"}

MdTexts == UNION {[1..n -> MdChars] : n \in 0..MaxMdLen}

\* text has the marker m at position p.
StartsAt(text, p, m) ==
    /\ p + Len(m) - 1 <= Len(text)
    /\ \A k \in 1..Len(m) : text[p + k - 1] = m[k]

\* Where a marker opened at p can close: /m(.*?)m/ takes the nearest.
Closings(text, p, m) ==
    {q \in (p + Len(m))..Len(text) : StartsAt(text, q, m)}

Least(S) == CHOOSE q \in S : \A r \in S : q <= r

\* text.replace(/m(.*?)m/g, "$1") from position p on: the leftmost pair of
\* markers is removed and its content kept, and the scan goes on behind the
\* closing marker (part_001:617-619).
RECURSIVE Unwrap(_, _, _)
Unwrap(text, p, m) ==
    IF p > Len(text) THEN <<>>
    ELSE IF StartsAt(text, p, m) /\ Closings(text, p, m) # {}
    THEN LET q == Least(Closings(text, p, m))
         IN  SubSeq(text, p + Len(m), q - 1) \o Unwrap(text, q + Len(m), m)
    ELSE <<text[p]>> \o Unwrap(text, p + 1, m)

\* The last position of the run of c that begins at p.
RunEnd(text, p, c) ==
    CHOOSE q \in p..Len(text) :
        /\ \A k \in p..q : text[k] = c
        /\ q = Len(text) \/ text[q + 1] # c

\* Where /#+\s+(.*)/ matches: a run of # that white space follows.
HeaderStarts(text) ==
    {p \in 1..Len(text) :
        /\ text[p] = "#"
        /\ RunEnd(text, p, "#") < Len(text)
        /\ text[RunEnd(text, p, "#") + 1] = " "}

\* Variant: the header step is left out.
HeadersKept(text) == text

\* text.replace(/#+\s+(.*)/g, "$1"), part_001:620: the leftmost match loses
\* its # and the white space behind them; (.*) takes the rest of the line,
\* so a line has one match.
Headers(text) ==
    IF HeaderStarts(text) = {} THEN text
    ELSE LET p == Least(HeaderStarts(text))
             sp == RunEnd(text, p, "#") + 1
         IN  SubSeq(text, 1, p - 1)
                 \o SubSeq(text, RunEnd(text, sp, " ") + 1, Len(text))

\* text.replace(/^[\-\*]\s+/gm, bullet + " "), part_001:627; "bullet" stands
\* for the character U+2022.
Lists(text) ==
    IF Len(text) >= 2 /\ text[1] \in {"-", "*"} /\ text[2] = " "
    THEN <<"bullet", " ">> \o SubSeq(text, RunEnd(text, 2, " ") + 1, Len(text))
    ELSE text

\* stripMarkdown(text), part_001:615-628, on one line made of MdChars. The
\* steps for links, block quotes, code blocks and table rows (lines 621-626)
\* need a bracket, a >, a backtick or a bar to match and leave such a line
\* as it is; "backtick" stands for the character U+0060.
stripMarkdown(text) ==
    Lists(Headers(Unwrap(Unwrap(Unwrap(text, 1, <<"*", "*">>), 1, <<"*">>),
                         1, <<"backtick">>)))

\* deliver's use of stripMarkdown (part_001:1358), and its use on a text
\* that went through it before.
Strip ==
    /\ Len(result) < 2
    /\ result' = Append(result, stripMarkdown(IF result = <<>> THEN arg.text
                                             ELSE result[1]))
    /\ UNCHANGED <<hostVars, arg, delivering, outbox, config, handlers, selfId,
                   processedMsgIds, memberCache, dispatched, replied, last,
                   arrived, clientVars, rpcVars>>

\* ------------------------------------- the client's listener and its emit

\* The JSON value null as a payload.
JsonNull == [ApiResponse EXCEPT !.post = "json_null"]

\* What arrives on the socket, by what JSON.parse and the shape test of
\* part_000:52-53 make of it: "bad" is no JSON text, "null" is the JSON text
\* null (it parses, and reading post_type of it throws inside the try),
\* "heartbeat" is the heartbeat meta event, "event" is any other JSON value,
\* with the payload the listeners of "message" get.
WireFrames ==
    [kind : {"bad", "heartbeat"}, payload : {ApiResponse}]
    \cup [kind : {"null"}, payload : {JsonNull}]
    \cup [kind : {"event"}, payload : {MetaLifecycle, ApiResponse, PrivateText}]

\* Friend and group add requests: post_type "request" with request_type
\* "friend" or "group".
FriendRequest == Event("request_friend", User, "private", "none", 0, <<>>)
GroupRequest == Event("request_group", User, "group", "g1", 0, <<>>)

RequestFrames == [kind : {"event"}, payload : {FriendRequest, GroupRequest}]

\* part_000:58: the name under which the client emits a parsed frame. It is
\* "message" for every frame; the client has no other emit of a frame.
EventName(payload) == "message"

\* The listener of "request" startAccount registers, part_001:1040-1045,
\* called with ev: the actions it sends (setFriendAddRequest,
\* setGroupAddRequest, part_000:98-104).
onRequest(ev) ==
    IF config.autoApproveRequests /\ ev.post = "request_friend"
    THEN <<[action |-> "set_friend_add_request", re |-> ev, approve |-> TRUE]>>
    ELSE IF config.autoApproveRequests /\ ev.post = "request_group"
    THEN <<[action |-> "set_group_add_request", re |-> ev, approve |-> TRUE]>>
    ELSE <<>>

\* Variant: the heartbeat is forwarded like any frame.
ForwardedWithHeartbeat(f) == f.kind \in {"event", "heartbeat"}

\* part_000:52-57: the frames that get to this.emit("message", payload).
Forwarded(f) == f.kind = "event"

\* ws "message" on socket s, part_000:50-61, with the emit followed into the
\* listeners startAccount registered for the name (part_001:1040, 1047). No sendWithResponse
\* call is pending where this action is used, so no per-call listener runs.
OnFrame(s, f) ==
    /\ sockets[s].rs \in {"open", "closing"}
    /\ sockets[s].listeners
    /\ calls = <<>>
    /\ arrived' = <<f>>
    /\ isAlive' = IF f.kind = "heartbeat" THEN TRUE ELSE isAlive
    /\ IF Forwarded(f) /\ EventName(f.payload) = "message"
       THEN onMessage(f.payload)
       ELSE UNCHANGED <<config, handlers, selfId, processedMsgIds, memberCache,
                        dispatched, replied, last>>
    /\ outbox' = IF Forwarded(f) /\ EventName(f.payload) = "request"
                 THEN outbox \o onRequest(f.payload) ELSE outbox
    /\ UNCHANGED <<ws, sockets, reconnectAttempts, reconnectTimer, timers,
                   destroyed, hostConnects, armsSinceOpen, disconnectedIn,
                   rpcVars, arg, result, delivering, hostVars>>

\* ------------------------------------------- the Resolved Inbound Context

\* The characters of a text without CQ codes: a letter, a space, a line
\* break.
BodyChars == {"a", " ", "\n"}
BodyTexts == UNION {[1..n -> BodyChars] : n \in 1..MaxBodyLen}

\* /\s/
IsSpace(c) == c \in {" ", "\n"}

RECURSIVE SkipSpaces(_)
SkipSpaces(text) ==
    IF text # <<>> /\ IsSpace(Head(text)) THEN SkipSpaces(Tail(text)) ELSE text

\* text.replace(/\s+/g, " "), part_001:559.
RECURSIVE CollapseSpaces(_)
CollapseSpaces(text) ==
    IF text = <<>> THEN <<>>
    ELSE IF IsSpace(Head(text)) THEN <<" ">> \o CollapseSpaces(SkipSpaces(text))
    ELSE <<Head(text)>> \o CollapseSpaces(Tail(text))

\* String.prototype.trim on a text whose white space is collapsed.
Trim(text) ==
    LET from == IF text # <<>> /\ IsSpace(text[1]) THEN 2 ELSE 1
        to == IF Len(text) >= from /\ IsSpace(text[Len(text)])
              THEN Len(text) - 1 ELSE Len(text)
    IN  SubSeq(text, from, to)

\* Variant: the text is passed through.
cleanCQCodesVerbatim(text) == text

\* cleanCQCodes(text), part_001:538-567, on a text without a bracket: the
\* steps for CQ codes find nothing and the white space is normalised.
cleanCQCodes(text) == IF text = <<>> THEN <<>> ELSE Trim(CollapseSpaces(text))

\* part_001:1412-1417 for a direct message without reply: the system block,
\* if a prompt is configured, and the cleaned text. The history block is
\* for groups.
SystemBlock(cfg) ==
    IF cfg.systemPrompt # ""
    THEN <<"<system>", cfg.systemPrompt, "</system>", "\n", "\n">> ELSE <<>>

\* finalizeInboundContext({...}), part_001:1419-1426, for a direct message
\* with the one text segment text.
InboundContext(cfg, text) ==
    [Body |-> SystemBlock(cfg) \o cleanCQCodes(text), RawBody |-> text,
     ChatType |-> "direct"]

\* The handler of a direct text message builds the context for the
\* dispatcher.
Resolve ==
    /\ result = <<>>
    /\ result' = <<InboundContext(config, arg.text)>>
    /\ UNCHANGED <<arg, delivering, outbox, hostVars, clientVars, rpcVars,
                   config, handlers, selfId, processedMsgIds, memberCache,
                   dispatched, replied, last, arrived>>

\* ------------------------------------------------------------ downloadFile

\* The urls downloadFile is given, by what its branches tell apart: two
\* http(s) urls, a file:// url, an absolute path, a url of another scheme
\* (a relative reference included) and a string that starts with http://
\* and is no url, on which http.get throws.
HttpUrls == {"http://a", "https://b"}
Urls == HttpUrls \cup {"file://f", "/p", "ftp://x", "http://"}

\* What the promise of downloadFile settles to: null, or the path of a file
\* with bytes received over http(s) or copied from the local disk; Rejected
\* is the promise rejecting.
Null == [path |-> "null", bytes |-> "none"]
Downloaded == [path |-> "dest", bytes |-> "remote"]
Copied == [path |-> "dest", bytes |-> "local"]
Rejected == [path |-> "rejected", bytes |-> "none"]

\* What the server does with a request: a 3xx with Location, a 200, another
\* status (a 3xx without Location included), a socket error.
Answers ==
    [kind : {"redirect"}, location : Urls]
    \cup [kind : {"ok", "status", "error"}, location : {"none"}]

\* downloadFile(url, filename) up to its first wait for the network,
\* part_001:683-725; fsOk is whether mkdir and copyFile succeed. A throw of
\* http.get inside the executor rejects the promise the function has
\* already returned, past its try block.
Entered(url, fsOk) ==
    IF ~fsOk THEN [pc |-> "returned", value |-> Null]
    ELSE IF url \in {"file://f", "/p"} THEN [pc |-> "returned", value |-> Copied]
    ELSE IF url = "http://" THEN [pc |-> "rejected", value |-> Rejected]
    ELSE IF url \notin HttpUrls THEN [pc |-> "returned", value |-> Null]
    ELSE [pc |-> "request", value |-> Null]

\* resolve(v) on the promise of the outermost call: the first call counts.
Resolved(v) == IF result = <<>> THEN <<v>> ELSE result

\* The files a call has put into the download directory.
Written(c) == IF c.value.bytes = "none" THEN {} ELSE {c.value.bytes}

\* The handler calls downloadFile(arg.url, name).
DownloadStart(fsOk) ==
    /\ download = <<>>
    /\ result = <<>>
    /\ LET c == Entered(arg.url, fsOk)
       IN  /\ download' = <<[pc |-> IF c.pc = "request" THEN "request" ELSE "done",
                             url |-> arg.url, hops |-> 0,
                             timer |-> (c.pc = "request"), files |-> Written(c)]>>
           /\ result' = IF c.pc = "request" THEN <<>> ELSE <<c.value>>
    /\ UNCHANGED <<arg, delivering, outbox, splitting, clients, started, clientVars, rpcVars,
                   config, handlers, selfId, processedMsgIds, memberCache,
                   dispatched, replied, last, arrived>>

\* The response callback or the error listener of the request runs,
\* part_001:726-758. A redirect clears the timer and calls downloadFile on
\* the Location; then(resolve) passes its result on and drops its
\* rejection, which leaves the promise pending if it has not settled.
ServerAnswers(a, fsOk) ==
    /\ download # <<>>
    /\ download[1].pc = "request"
    /\ LET d == download[1]
       IN  CASE a.kind = "redirect" ->
                    LET c == Entered(a.location, fsOk)
                    IN  /\ d.hops < MaxHops
                        /\ download' =
                             <<[pc |-> IF c.pc = "request" THEN "request"
                                       ELSE IF c.pc = "rejected" /\ result = <<>>
                                       THEN "pending" ELSE "done",
                                url |-> a.location, hops |-> d.hops + 1,
                                timer |-> (c.pc = "request"),
                                files |-> d.files \cup Written(c)]>>
                        /\ result' = IF c.pc = "returned" THEN Resolved(c.value)
                                     ELSE result
             [] a.kind = "ok" ->
                    /\ download' = <<[d EXCEPT !.pc = "pipe"]>>
                    /\ UNCHANGED result
             [] OTHER ->
                    /\ download' = <<[d EXCEPT !.pc = "done", !.timer = FALSE]>>
                    /\ result' = Resolved(Null)
    /\ UNCHANGED <<arg, delivering, outbox, splitting, clients, started, clientVars, rpcVars,
                   config, handlers, selfId, processedMsgIds, memberCache,
                   dispatched, replied, last, arrived>>

\* pipeline(res, ws) settles, part_001:741-752.
PipelineEnds(ok) ==
    /\ download # <<>>
    /\ download[1].pc = "pipe"
    /\ download' = <<[download[1] EXCEPT
                        !.pc = "done", !.timer = FALSE,
                        !.files = IF ok THEN @ \cup {"remote"} ELSE @]>>
    /\ result' = Resolved(IF ok THEN Downloaded ELSE Null)
    /\ UNCHANGED <<arg, delivering, outbox, splitting, clients, started, clientVars, rpcVars,
                   config, handlers, selfId, processedMsgIds, memberCache,
                   dispatched, replied, last, arrived>>

\* The 30 s timer of the request in progress fires, part_001:722-725: the
\* promise resolves to null; the request is not aborted.
DownloadTimeout ==
    /\ download # <<>>
    /\ download[1].timer
    /\ download' = <<[download[1] EXCEPT !.timer = FALSE]>>
    /\ result' = Resolved(Null)
    /\ UNCHANGED <<arg, delivering, outbox, splitting, clients, started, clientVars, rpcVars,
                   config, handlers, selfId, processedMsgIds, memberCache,
                   dispatched, replied, last, arrived>>

\* ------------------------------------------- the registry and the outbound

\* startAccount(ctx) for account a, part_001:1004-1022 and 1438: a client the
\* Map holds for a is disconnected and its entry deleted, a new client is
\* made, put into the Map and connected. Call number Len(started) + 1
\* returns its stop handle.
StartAccount(a) ==
    /\ Len(started) < MaxStarts
    /\ LET old == clients[a]
           cleaned == IF old = 0 THEN started
                      ELSE [started EXCEPT ![old].destroyed = TRUE,
                                           ![old].rs = "closed"]
       IN  started' = Append(cleaned, [account |-> a, rs |-> "connecting",
                                       destroyed |-> FALSE, stopped |-> FALSE])
    /\ clients' = [clients EXCEPT ![a] = Len(started) + 1]
    /\ UNCHANGED <<arg, result, delivering, outbox, download, splitting,
                   clientVars, rpcVars, config, handlers, selfId,
                   processedMsgIds, memberCache, dispatched, replied, last,
                   arrived>>

\* The Map after the stop handle of call k ran, part_001:1442:
\* clients.delete(account.accountId).
Stopped(k) == [clients EXCEPT ![started[k].account] = 0]

\* The host invokes the stop handle call k returned, part_001:1439-1444.
StopHandle(k) ==
    /\ k \in DOMAIN started
    /\ ~started[k].stopped
    /\ started' = [started EXCEPT ![k].destroyed = TRUE, ![k].rs = "closed",
                                  ![k].stopped = TRUE]
    /\ clients' = Stopped(k)
    /\ UNCHANGED <<arg, result, delivering, outbox, download, splitting,
                   clientVars, rpcVars, config, handlers, selfId,
                   processedMsgIds, memberCache, dispatched, replied, last,
                   arrived>>

\* The socket of the client of call k opens, or is lost and the client
\* goes to reconnect (part_000:43-67).
ClientSocket(k) ==
    /\ k \in DOMAIN started
    /\ ~started[k].destroyed
    /\ started' = [started EXCEPT
                     ![k].rs = IF @ = "connecting" THEN "open" ELSE "connecting"]
    /\ UNCHANGED <<arg, result, delivering, outbox, download, splitting,
                   clients, clientVars, rpcVars, config, handlers, selfId,
                   processedMsgIds, memberCache, dispatched, replied, last,
                   arrived>>

\* The targets of an outbound call: "group:1", a user id, "guild:g:c" and
\* the guild address "guild:g" that lacks its channel.
Targets == {"group", "private", "guild", "guild_bad"}

\* The frames client.sendGroupMsg, sendGuildChannelMsg or sendPrivateMsg
\* write for target to on the client of call k: send() writes when the
\* socket is open and warns otherwise (part_000:200-206), and a guild
\* address of fewer than three parts is skipped (part_001:1461-1462).
Frames1(k, to) == IF to # "guild_bad" /\ started[k].rs = "open" THEN 1 ELSE 0

\* part_001:1467 and 1529: the outbound calls return sent: true once a
\* client was found.
Reports(k, written) == TRUE

\* outbound.sendText({to, text, accountId}) with a text of one chunk,
\* part_001:1451-1468.
SendText(a, to) ==
    /\ result' =
         IF clients[a] = 0 THEN <<[sent |-> FALSE, written |-> 0, via |-> 0]>>
         ELSE <<[sent |-> Reports(clients[a], Frames1(clients[a], to)),
                 written |-> Frames1(clients[a], to), via |-> clients[a]]>>
    /\ UNCHANGED <<arg, delivering, outbox, hostVars, clientVars, rpcVars,
                   config, handlers, selfId, processedMsgIds, memberCache,
                   dispatched, replied, last, arrived>>

\* The frames of the media part of sendMedia, part_001:1486-1526: an image
\* goes like a text; another file is uploaded with sendWithResponse, which
\* writes its frame on an open socket and rejects otherwise, and a failed
\* upload falls back to a CQ code message; a guild gets no file.
MediaFrames(k, to, image, uploadOk) ==
    IF image THEN Frames1(k, to)
    ELSE IF to \in {"guild", "guild_bad"} THEN 0
    ELSE IF started[k].rs # "open" THEN 0
    ELSE IF uploadOk THEN 1 ELSE 2

\* outbound.sendMedia({to, text, mediaUrl, accountId}), part_001:1470-1530,
\* with the socket in one state throughout the call.
SendMedia(a, to, hasText, image, uploadOk) ==
    /\ result' =
         IF clients[a] = 0 THEN <<[sent |-> FALSE, written |-> 0, via |-> 0]>>
         ELSE LET k == clients[a]
                  written == (IF hasText THEN Frames1(k, to) ELSE 0)
                             + MediaFrames(k, to, image, uploadOk)
              IN  <<[sent |-> Reports(k, written), written |-> written, via |-> k]>>
    /\ UNCHANGED <<arg, delivering, outbox, hostVars, clientVars, rpcVars,
                   config, handlers, selfId, processedMsgIds, memberCache,
                   dispatched, replied, last, arrived>>

\* ------------------------------------------------------------ specifications

\* One backoff client as startAccount drives it (part_001:1017-1023, 1439-1444):
\* connect() once, then socket events, timers, requests, and disconnect().
Next ==
    \/ HostConnect(1, MaxSockets)
    \/ \E t \in DOMAIN timers : ReconnectTimerFire(t, MaxSockets)
    \/ \E s \in DOMAIN sockets : OnOpen(s)
    \/ \E s \in DOMAIN sockets : OnClose(s)
    \/ \E s \in DOMAIN sockets : OnError(s)
    \/ \E s \in DOMAIN sockets, f \in Frames : OnMessage(s, f)
    \/ \E e \in Tokens : SendWithResponse(e, MaxCalls)
    \/ \E c \in DOMAIN calls : RequestTimeout(c)
    \/ Disconnect

Spec == Init /\ [][Next]_vars

\* The same client with the event loop's guarantee that an armed setTimeout
\* of sendWithResponse runs its callback.
NextLive ==
    \/ HostConnect(1, MaxSockets)
    \/ \E t \in DOMAIN timers : ReconnectTimerFire(t, MaxSockets)
    \/ \E s \in DOMAIN sockets : OnOpen(s)
    \/ \E s \in DOMAIN sockets : OnClose(s)
    \/ \E s \in DOMAIN sockets : OnError(s)
    \/ \E s \in DOMAIN sockets, f \in Frames : OnMessage(s, f)
    \/ \E e \in Tokens : SendWithResponse(e, MaxLiveCalls)
    \/ \E c \in DOMAIN calls : RequestTimeout(c)
    \/ Disconnect

SpecLive ==
    /\ Init
    /\ [][NextLive]_vars
    /\ \A c \in 1..MaxLiveCalls : WF_vars(RequestTimeout(c))

\* The connection lifecycle alone, long enough for the delay to reach its cap.
NextBackoff ==
    \/ HostConnect(1, MaxLifeSockets)
    \/ \E t \in DOMAIN timers : ReconnectTimerFire(t, MaxLifeSockets)
    \/ \E s \in DOMAIN sockets : OnOpen(s)
    \/ \E s \in DOMAIN sockets : OnClose(s)
    \/ \E s \in DOMAIN sockets : OnError(s)
    \/ Disconnect

SpecBackoff == Init /\ [][NextBackoff]_vars

\* The connection lifecycle with what the event loop and the socket
\* guarantee: an armed reconnect timer runs its callback, and a socket that
\* failed or was closed emits its close event.
SpecReconnect ==
    /\ Init
    /\ [][NextBackoff]_vars
    /\ WF_vars(\E t \in DOMAIN timers : ReconnectTimerFire(t, MaxLifeSockets))
    /\ WF_vars(\E s \in DOMAIN sockets : sockets[s].rs = "closing" /\ OnClose(s))

\* The connection lifecycle with a host that calls connect() again while a
\* socket of an earlier connect() exists.
NextReentrant ==
    \/ HostConnect(MaxHostConnects, MaxReentrantSockets)
    \/ \E t \in DOMAIN timers : ReconnectTimerFire(t, MaxReentrantSockets)
    \/ \E s \in DOMAIN sockets : OnOpen(s)
    \/ \E s \in DOMAIN sockets : OnClose(s)
    \/ \E s \in DOMAIN sockets : OnError(s)
    \/ Disconnect

SpecReentrant == Init /\ [][NextReentrant]_vars

\* The fixed-delay client of client.ts as startAccount of channel.ts drives
\* it (channel.ts:353-357).
NextLegacy ==
    \/ LegacyHostConnect
    \/ \E t \in DOMAIN timers : LegacyTimerFire(t)
    \/ \E s \in DOMAIN sockets : LegacyOnOpen(s)
    \/ \E s \in DOMAIN sockets : LegacyOnClose(s)
    \/ \E s \in DOMAIN sockets : LegacyOnError(s)
    \/ LegacyDisconnect

SpecLegacy == Init /\ [][NextLegacy]_vars

\* The inbound path of one account: every frame the client forwards starts
\* the handler; awaited promises settle in any order.
NextPipe ==
    \/ \E ev \in PipeEvents : HandlerStart(ev)
    \/ \E h \in DOMAIN handlers, ok \in BOOLEAN : HandlerResume(h, ok)
    \/ \E k \in memberCache : CacheEntryExpires(k)

SpecPipe == Init /\ [][NextPipe]_vars

\* The trigger decision: an account under any configuration of Configs,
\* before or after the lifecycle event told it its id, gets one of the
\* messages of TriggerEvents (possibly more than once).
InitTrigger == \E cfg \in Configs : InitWith(cfg)

OnlyEvent(ev) ==
    /\ processedMsgIds \subseteq {ev.mid}
    /\ \A h \in DOMAIN handlers : handlers[h].ev = ev
    /\ DOMAIN dispatched \subseteq {ev}
    /\ replied \subseteq {ev}
    /\ last \in {<<>>, <<ev>>, <<MetaLifecycle>>}

NextTrigger ==
    \/ HandlerStart(MetaLifecycle)
    \/ \E ev \in TriggerEvents : OnlyEvent(ev) /\ HandlerStart(ev)
    \/ \E h \in DOMAIN handlers, ok \in BOOLEAN : HandlerResume(h, ok)
    \/ \E k \in memberCache : CacheEntryExpires(k)

SpecTrigger == InitTrigger /\ [][NextTrigger]_vars

\* An account that requires a mention in groups and keeps no history, so
\* that a plain group message is seen, recorded and dropped without an await.
DedupConfig == [DefaultConfig EXCEPT !.requireMention = TRUE, !.historyLimit = 0]

\* A plain group message with message_id n.
Chatter(n) == [GroupPlain EXCEPT !.mid = n]

\* Deduplication over a long run: the account gets the private message
\* PrivateText (message_id 1), any number of times, group chatter with ids
\* not seen so far in between, and the hourly cleanup runs at any time.
NextDedup ==
    \/ HandlerStart(PrivateText)
    \/ \E n \in {Cardinality(processedMsgIds) + 1} :
            /\ n \in 2..MaxMsgIds
            /\ HandlerStart(Chatter(n))
    \/ \E h \in DOMAIN handlers : HandlerResume(h, TRUE)
    \/ CleanupTick

InitDedup == InitWith(DedupConfig)

SpecDedup == InitDedup /\ [][NextDedup]_vars

\* The name cache: two group messages of g1 that mention the same member,
\* and one that mentions the account, arrive in any order and at any
\* distance, and the cache entries age.
GroupAtAgain == [GroupAt EXCEPT !.mid = 16]

NextCache ==
    \/ \E ev \in {GroupAt, GroupAtAgain, GroupAtSelf} : HandlerStart(ev)
    \/ \E h \in DOMAIN handlers, ok \in BOOLEAN : HandlerResume(h, ok)
    \/ \E k \in memberCache : CacheEntryExpires(k)

SpecCache == Init /\ [][NextCache]_vars

\* Two accounts in one process: this account's messages as in NextCache,
\* while the other account resolves mentions in the same group.
NextAccounts ==
    \/ \E ev \in {GroupAt, GroupAtAgain, GroupAtSelf} : HandlerStart(ev)
    \/ \E h \in DOMAIN handlers, ok \in BOOLEAN : HandlerResume(h, ok)
    \/ \E k \in memberCache : CacheEntryExpires(k)
    \/ \E k \in {<<"g1", User>>, <<"g1", Bot>>} : OtherAccountCaches(k)

SpecAccounts == Init /\ [][NextAccounts]_vars

\* Segment resolution: messages with several segments that need a lookup,
\* each lookup succeeding or failing.
GroupMixed == Event("message", User, "group", "g1", 17,
                    <<"at_user", "forward", "file_id", "text", "at_self">>)

NextSegments ==
    \/ \E ev \in {GroupMixed, ReplyForward, GroupAt} : HandlerStart(ev)
    \/ \E h \in DOMAIN handlers, ok \in BOOLEAN : HandlerResume(h, ok)

SpecSegments == Init /\ [][NextSegments]_vars

\* The client with the listener of startAccount attached: the connection
\* lifecycle, and frames of every shape arriving on the sockets.
NextFrames ==
    \/ HostConnect(1, MaxSockets)
    \/ \E t \in DOMAIN timers : ReconnectTimerFire(t, MaxSockets)
    \/ \E s \in DOMAIN sockets : OnOpen(s)
    \/ \E s \in DOMAIN sockets : OnClose(s)
    \/ \E s \in DOMAIN sockets : OnError(s)
    \/ \E s \in DOMAIN sockets, f \in WireFrames : OnFrame(s, f)
    \/ \E h \in DOMAIN handlers, ok \in BOOLEAN : HandlerResume(h, ok)
    \/ Disconnect

SpecFrames == Init /\ [][NextFrames]_vars

\* splitMessage on every text up to MaxTextLen characters and every limit
\* from 1 to MaxLimit.
SplitArgs == [text : Texts, limit : 1..MaxLimit]

InitSplit == \E a \in SplitArgs : InitState(DefaultConfig, a)

NextSplit == Split

SpecSplit == InitSplit /\ [][NextSplit]_vars

\* splitMessage as deliver calls it, step by step: a text of up to
\* MaxTextLen characters and a config.maxMessageLength from -MaxLimit to
\* MaxLimit.
ConfiguredLimits == (0 - MaxLimit)..MaxLimit

InitSplitting ==
    \E a \in [text : Texts, limit : ConfiguredLimits] : InitState(DefaultConfig, a)

NextSplitting == SplitStart \/ SplitStep

SpecSplitting == InitSplitting /\ [][NextSplitting]_vars

\* deliver on every text-only payload: a text of 1 to MaxTextLen
\* characters, a limit (config.maxMessageLength) from 1 to MaxLimit, sent
\* to a group, a guild channel or a user, with config.enableTTS on or off.
DeliverArgs ==
    [text : Texts \ {<<>>}, limit : 1..MaxLimit,
     kind : {"group", "guild", "private"}, tts : BOOLEAN]

InitDeliver == \E a \in DeliverArgs : InitState(DefaultConfig, a)

NextDeliver == DeliverStart \/ \E k \in 1..MaxDelivers : DeliverResume(k)

SpecDeliver == InitDeliver /\ [][NextDeliver]_vars

\* stripMarkdown on every text of at most MaxMdLen characters.
InitMarkdown == \E t \in MdTexts : InitState(DefaultConfig, [text |-> t])

NextMarkdown == Strip

SpecMarkdown == InitMarkdown /\ [][NextMarkdown]_vars

\* The configurations of the failure notice: the setting on and off, the
\* voice messages on and off, the default maxMessageLength and one the
\* notice does not fit in.
NotifyConfigs ==
    {[DefaultConfig EXCEPT !.enableErrorNotify = n, !.enableTTS = t,
                           !.maxMessageLength = l] :
        n \in BOOLEAN, t \in BOOLEAN,
        l \in {DefaultMaxMessageLength, ShortMessageLength}}

InitNotify == \E cfg \in NotifyConfigs : InitWith(cfg)

\* A direct message and a group message arrive, every awaited call of their
\* handlers succeeds or fails, and the notices are delivered.
NextNotify ==
    \/ \E ev \in {PrivateText, GroupAt} : HandlerStart(ev)
    \/ \E h \in 1..MaxHandlers, ok \in BOOLEAN : HandlerResume(h, ok)
    \/ \E k \in 1..MaxDelivers : DeliverResume(k)

SpecNotify == InitNotify /\ [][NextNotify]_vars

\* downloadFile on every url, with every behaviour of the server and of the
\* local disk.
InitDownload == \E u \in Urls : InitState(DefaultConfig, [url |-> u])

NextDownload ==
    \/ \E fsOk \in BOOLEAN : DownloadStart(fsOk)
    \/ \E a \in Answers, fsOk \in BOOLEAN : ServerAnswers(a, fsOk)
    \/ \E ok \in BOOLEAN : PipelineEnds(ok)
    \/ DownloadTimeout

SpecDownload == InitDownload /\ [][NextDownload]_vars

\* The client with the listeners of startAccount attached, with automatic
\* approval on or off, and add requests among the frames that arrive.
ApproveConfigs ==
    {[DefaultConfig EXCEPT !.autoApproveRequests = a] : a \in BOOLEAN}

InitRequests == \E cfg \in ApproveConfigs : InitWith(cfg)

NextRequests ==
    \/ HostConnect(1, MaxSockets)
    \/ \E t \in DOMAIN timers : ReconnectTimerFire(t, MaxSockets)
    \/ \E s \in DOMAIN sockets : OnOpen(s)
    \/ \E s \in DOMAIN sockets : OnClose(s)
    \/ \E s \in DOMAIN sockets : OnError(s)
    \/ \E s \in DOMAIN sockets, f \in WireFrames \cup RequestFrames : OnFrame(s, f)
    \/ \E h \in DOMAIN handlers, ok \in BOOLEAN : HandlerResume(h, ok)
    \/ Disconnect

SpecRequests == InitRequests /\ [][NextRequests]_vars

\* A direct text message of every text up to MaxBodyLen characters, with and
\* without a system prompt configured.
PromptConfigs == {[DefaultConfig EXCEPT !.systemPrompt = p] : p \in {"", "prompt"}}

InitContext ==
    \E cfg \in PromptConfigs, t \in BodyTexts : InitState(cfg, [text |-> t])

NextContext == Resolve

SpecContext == InitContext /\ [][NextContext]_vars

\* The host starts and stops accounts, the sockets of their clients open
\* and drop, and the host sends text and media.
NextRegistry ==
    \/ \E a \in Accounts : StartAccount(a)
    \/ \E k \in 1..MaxStarts : StopHandle(k)
    \/ \E k \in 1..MaxStarts : ClientSocket(k)
    \/ \E a \in Accounts, to \in Targets : SendText(a, to)
    \/ \E a \in Accounts, to \in Targets, hasText, image, uploadOk \in BOOLEAN :
          SendMedia(a, to, hasText, image, uploadOk)

SpecRegistry == Init /\ [][NextRegistry]_vars

\* ------------------------------------------------------------------ claims

ArmedTimers == {t \in DOMAIN timers : timers[t].st = "armed"}

SentCalls == {c \in DOMAIN calls : calls[c].sent}

DistinctTokens ==
    \A i, j \in SentCalls : i # j => calls[i].echo # calls[j].echo

\* C1. With distinct echo tokens in flight, every call is settled by a
\* response at most once and only by the response that carries its own
\* token; the arrival of one call's response settles that call and changes
\* no other call, in whatever order the responses arrive.
C1_OwnResponse ==
    DistinctTokens =>
        \A c \in DOMAIN calls :
            /\ calls[c].hits <= 1
            /\ calls[c].by # NoFrame =>
                  calls[c].by.echo = calls[c].echo /\ calls[c].st # "pending"

\* One step, call by call: a settled call stays as it is; a call still
\* pending after the step was not handed its own response by the step (the
\* arrival of that response would have made it handler(...)); and the step
\* settled at most one call from a frame.
C1_Independent ==
    DistinctTokens =>
        /\ \A c \in DOMAIN calls :
              /\ c \in DOMAIN calls'
              /\ calls[c].st # "pending" =>
                    /\ calls'[c].st = calls[c].st
                    /\ calls'[c].val = calls[c].val
                    /\ calls'[c].by = calls[c].by
              /\ (calls[c].st = "pending" /\ calls[c].on /\ calls'[c].st = "pending") =>
                    \A f \in RespFrames :
                        \/ f.echo # calls[c].echo
                        \/ handler(calls[c], calls[c].sock, f) # calls'[c]
                        \/ ~OnMessage(calls[c].sock, f)
        /\ Cardinality({c \in DOMAIN calls :
                           /\ calls[c].st = "pending"
                           /\ calls'[c].st # "pending"
                           /\ calls'[c].by # NoFrame}) <= 1

C1_EachCallSettlesOnceByItsOwnResponse ==
    [](C1_OwnResponse) /\ [][C1_Independent]_vars

\* C1 witness: two calls on one socket with distinct tokens; the response of
\* the later call arrived first and settled it while the earlier call is
\* still waiting.
C1_Witness ==
    /\ Len(calls) = 2
    /\ calls[1].sock = calls[2].sock
    /\ calls[1].echo # calls[2].echo
    /\ calls[1].st = "pending" /\ calls[1].on
    /\ calls[2].st = "resolved" /\ calls[2].by.echo = calls[2].echo

\* C7. sendWithResponse called while this.ws is null or names a socket that
\* is not OPEN rejects at once with "WebSocket not open": the new call has
\* no listener and no timer, nothing is written to the wire and no other
\* call changes.
C7_NotOpenRejectsWithoutSending ==
    [][(Len(calls') = Len(calls) + 1 /\ (ws = 0 \/ sockets[ws].rs # "open")) =>
          LET n == calls'[Len(calls')]
          IN  /\ n.st = "rejected"
              /\ n.val = "WebSocket not open"
              /\ ~n.sent /\ ~n.on /\ n.tmr = "none"
              /\ wire' = wire
              /\ SubSeq(calls', 1, Len(calls)) = calls]_vars

\* C7 witness: a call was rejected unsent while the socket of a reconnect
\* is still connecting.
C7_Witness ==
    /\ Len(sockets) = 2
    /\ WsState = "connecting"
    /\ \E c \in DOMAIN calls :
          ~calls[c].sent /\ calls[c].val = "WebSocket not open" /\ ~calls[c].on

\* C8. A frame whose echo is the token of no pending call settles no call:
\* state, value and settling frame of every call stay as they were.
C8_OrphanResponseIgnored ==
    [][\/ \A c \in DOMAIN calls :
             /\ c \in DOMAIN calls'
             /\ calls'[c].st = calls[c].st
             /\ calls'[c].val = calls[c].val
             /\ calls'[c].by = calls[c].by
       \/ ~\E s \in DOMAIN sockets, f \in Frames :
             /\ ~\E c \in DOMAIN calls : calls[c].st = "pending" /\ calls[c].echo = f.echo
             /\ OnMessage(s, f)]_vars

\* C8 witness: one call already answered, so that a repeat of its response
\* is an orphan, while another call with another token is pending on the
\* open socket.
C8_Witness ==
    \E c, d \in DOMAIN calls :
        /\ calls[c].by # NoFrame /\ ~calls[c].on
        /\ calls[d].st = "pending" /\ calls[d].on
        /\ calls[d].echo # calls[c].echo
        /\ calls[d].sock = calls[c].sock
        /\ sockets[calls[d].sock].rs = "open"

\* C9. A pending call that gets a frame with its echo resolves with the
\* frame's data when status is "ok" and is rejected otherwise, with the
\* frame's msg (the fixed text "API request failed" when the frame has no
\* msg); no call is resolved by a frame whose status is not "ok".
\* (by is the frame whose arrival settled the call while it was pending.)
C9_StatusDecides ==
    \A c \in DOMAIN calls :
        /\ calls[c].by # NoFrame =>
              IF calls[c].by.status = "ok"
              THEN calls[c].st = "resolved" /\ calls[c].val = calls[c].by.data
              ELSE /\ calls[c].st = "rejected"
                   /\ calls[c].val = IF calls[c].by.msg # "" THEN calls[c].by.msg
                                     ELSE "API request failed"
        /\ calls[c].st = "resolved" =>
              calls[c].by # NoFrame /\ calls[c].by.status = "ok"

\* C9 witness: one call resolved by an ok frame, one rejected with the msg of
\* a failed frame.
C9_Witness ==
    \E c, d \in DOMAIN calls :
        /\ calls[c].st = "resolved" /\ calls[c].val = "d1"
        /\ calls[d].st = "rejected" /\ calls[d].by.status = "failed"
        /\ calls[d].val = "m1"

\* C10. Every call settles: a call that was sent keeps its 5 s timer armed
\* while it is pending, the timer's callback rejects it with "Request
\* timeout" when no response settled it, and so no call stays pending
\* forever, whatever happens to the socket meanwhile.
C10_EveryCallSettles ==
    /\ [](\A c \in DOMAIN calls :
             /\ calls[c].st = "pending" => calls[c].tmr = "armed"
             /\ (calls[c].tmr = "fired" /\ calls[c].by = NoFrame) =>
                   calls[c].st = "rejected" /\ calls[c].val = "Request timeout")
    /\ \A c \in 1..MaxLiveCalls :
          [](c \in DOMAIN calls =>
                <>(c \in DOMAIN calls /\ calls[c].st # "pending"))

\* C10 witness: a call rejected by its timeout after disconnect() nulled the
\* socket it was sent on.
C10_Witness ==
    \E c \in DOMAIN calls :
        /\ calls[c].val = "Request timeout"
        /\ calls[c].sent
        /\ DisconnectCalled /\ ws = 0

\* C3. disconnect() of the backoff client is terminal: from then on no
\* reconnect timer is armed, this.ws is null, no timer fires and no socket
\* is created, also when the old socket's close or error comes afterwards.
C3_DisconnectIsTerminal ==
    /\ [](DisconnectCalled => ArmedTimers = {} /\ ws = 0 /\ reconnectTimer = 0)
    /\ [][DisconnectCalled =>
             Len(sockets') = Len(sockets) /\ timers' = timers]_vars

\* C3 witness: disconnect() was called while the socket of a reconnect was
\* open, and that socket's close has been delivered since.
C3_Witness ==
    /\ disconnectedIn = "open"
    /\ Len(sockets) >= 2
    /\ sockets[Len(sockets)].rs = "closed"

\* The delays the backoff is meant to produce: 1 s doubling up to 32 s, then
\* 60 s.
C5_Expected(k) ==
    CASE k = 0 -> 1000
      [] k = 1 -> 2000
      [] k = 2 -> 4000
      [] k = 3 -> 8000
      [] k = 4 -> 16000
      [] k = 5 -> 32000
      [] OTHER -> 60000

\* C5. The timer armed for the k-th consecutive reconnect since the last
\* open event (k from 0) has delay min(1000 * 2^k, 60000) ms; after an open
\* event the next delay is 1000 ms again.
C5_BackoffDelays ==
    \A t \in DOMAIN timers : timers[t].delay = C5_Expected(timers[t].k)

\* C5 witness: a timer armed at the cap (k = 6, 60 s) and a later one armed
\* after an open event with 1 s.
C5_Witness ==
    \E t, u \in DOMAIN timers :
        /\ t < u
        /\ timers[t].k = 6 /\ timers[t].delay = 60000
        /\ timers[u].k = 0 /\ timers[u].delay = 1000

\* C6. At most one reconnect timer is armed in every reachable state, also
\* when the host calls connect() again while a socket exists.
C6_AtMostOneTimerArmed == Cardinality(ArmedTimers) <= 1

\* C4. disconnect() of the client of client.ts is terminal: once it was
\* called with the socket open, no further socket is opened.
C4_LegacyDisconnectIsTerminal ==
    [][disconnectedIn = "open" => Len(sockets') = Len(sockets)]_vars

InProgress == DOMAIN handlers

\* C2. Event processing is serial: the handler of one forwarded frame has
\* run to completion, awaits included, before the handler of the next frame
\* starts, so at most one handler is in progress.
C2_HandlersRunSerially == Cardinality(InProgress) <= 1

\* C11. A call is removed on connection loss: once the socket it was sent on
\* has closed, the call is not pending any more.
C11_ClosedSocketHasNoPendingCall ==
    \A c \in DOMAIN calls :
        (calls[c].sent /\ sockets[calls[c].sock].rs = "closed") =>
            calls[c].st # "pending"

RegisteredListeners == {c \in DOMAIN calls : calls[c].on}

PendingCalls == {c \in DOMAIN calls : calls[c].st = "pending"}

\* C12. One response listener per outstanding token and none for a call
\* that resolved, was rejected or timed out: the registered response
\* listeners are as many as the pending calls.
C12_ListenersMatchPendingCalls ==
    Cardinality(RegisteredListeners) = Cardinality(PendingCalls)

\* C13. At most one pending call per token: no two calls pending at the same
\* time carry the same echo, and so no step settles two calls from one frame.
C13_OnePendingCallPerToken ==
    \A c, d \in PendingCalls : c # d => calls[c].echo # calls[d].echo

\* C14. With enableDeduplication on, two deliveries of a message with the
\* same message_id lead to one call of the reply dispatcher, whatever lies
\* between them, runs of the hourly cleanup included.
C14_SameIdDispatchedOnce ==
    \A e \in DOMAIN dispatched : e.mid # 0 => Dispatches(e) <= 1

\* C15. The set of seen ids is cleared once its size passes the threshold,
\* so its size never exceeds the first size past the threshold.
C15_SeenSetBounded == Cardinality(processedMsgIds) <= CleanupThreshold + 1

\* ---- the trigger decision (claims C16 to C20)

HasSeg(e, kinds) == \E j \in DOMAIN e.segs : e.segs[j] \in kinds

GroupMessages == {e \in TriggerEvents : e.post = "message" /\ e.group}

\* The text of e holds a configured keyword.
MatchesKeyword(e) == config.keywordTriggers /\ e.text = "kw"

\* e passes the filters that precede the trigger decision: its sender is
\* neither the account nor 2854196310 nor blocked, its group is allowed, the
\* admin list is empty or names the sender, and it is no admin command.
Accepted(e) ==
    /\ e.user \notin {Bot, SystemUser} \cup config.blockedUsers
    /\ (e.group /\ config.allowedGroups # {}) => e.gid \in config.allowedGroups
    /\ config.admins # {} => (e.user \in config.admins /\ e.text # "cmd")

\* A handler of e ends in this step.
Ends(e, h) ==
    /\ h \in DOMAIN handlers
    /\ handlers[h].ev = e
    /\ Len(handlers') < Len(handlers)

\* This step is the first delivery of e: its id enters the seen set.
FirstDelivery(e) == e.mid \notin processedMsgIds /\ e.mid \in processedMsgIds'

\* e is dispatched once: at most one call of the dispatcher, its handler is
\* suspended after the first delivery, and ends only after the dispatcher's
\* await.
DispatchedOnce(e) ==
    /\ (Dispatches(e) <= 1)'
    /\ FirstDelivery(e) => \E h \in DOMAIN handlers' : handlers'[h].ev = e
    /\ \A h \in DOMAIN handlers : Ends(e, h) => handlers[h].pc = "dispatch"

\* The account's id is known to the handler: from the lifecycle event or
\* from the frame's self_id.
SelfIdKnown(e) == selfId # "null" \/ e.self # "null"

GuildMessages == {e \in TriggerEvents : e.post = "message" /\ e.guild}

\* C17. The trigger rule of groups applies to guild messages: with
\* requireMention on and guilds enabled, a guild message that is not the poke
\* placeholder, holds no configured keyword, has no at segment of self or of
\* "all" and is no reply to a message of self does not reach the reply
\* dispatcher.
C17_GuildMentionGating ==
    (requireMention /\ config.enableGuilds) =>
        \A e \in GuildMessages :
            (/\ e.text # "poke"
             /\ ~MatchesKeyword(e)
             /\ ~HasSeg(e, {"at_self", "at_all"})
             /\ e.replyTo # "self") => Dispatches(e) = 0

PrivateMessages == {e \in TriggerEvents : e.post = "message" /\ ~e.group /\ ~e.guild}

\* The first delivery of e gets to the reply dispatcher: its handler is
\* suspended after the delivery and ends only after the dispatcher's await.
Reaches(e) ==
    /\ FirstDelivery(e) => \E h \in DOMAIN handlers' : handlers'[h].ev = e
    /\ \A h \in DOMAIN handlers : Ends(e, h) => handlers[h].pc = "dispatch"

Excluded(e) ==
    \/ e.user \in config.blockedUsers
    \/ (e.group /\ config.allowedGroups # {} /\ e.gid \notin config.allowedGroups)

\* C19. A message of a sender in blockedUsers, or a group message of a
\* group absent from a non-empty allowedGroups, never reaches the reply
\* dispatcher and is never answered with a message, whatever its content.
C19_ExcludedNeverAnswered ==
    \A e \in TriggerEvents :
        Excluded(e) => (Dispatches(e) = 0 /\ e \notin replied)

\* The handler of a blocked sender's group message with an at segment of
\* self has run to its end, the message was seen and not dispatched.
C19_Witness ==
    /\ Excluded(From(BlockedUser, GroupAtSelf))
    /\ From(BlockedUser, GroupAtSelf).mid \in processedMsgIds
    /\ handlers = <<>>
    /\ Dispatches(From(BlockedUser, GroupAtSelf)) = 0

SelfAuthored == {e \in TriggerEvents : e.user = Bot}

\* C21. No message of the account itself is processed as input: when the
\* account's id is known (from the lifecycle event or, failing that, from
\* the frame's self_id), the handler of a frame whose user_id is that id
\* returns before deduplication, segment resolution and the reply
\* dispatcher: it records no id, leaves no suspended handler, looks up no
\* name and answers nothing.
C21_SelfAuthoredIsDropped ==
    [][\A e \in SelfAuthored :
          /\ (SelfIdKnown(e) /\ HandlerStart(e)) =>
                UNCHANGED <<processedMsgIds, handlers, memberCache, dispatched,
                            replied>>
          /\ e.self # "null" =>
                (/\ Dispatches(e) = 0
                 /\ \A h \in DOMAIN handlers : handlers[h].ev # e)']_vars

\* The client emitted a group message of the account itself that has an at
\* segment of the account, after the lifecycle event; nothing came of it.
C21_Witness ==
    /\ last = <<NoSelfId(From(Bot, GroupAtSelf))>>
    /\ selfId = Bot
    /\ handlers = <<>>
    /\ processedMsgIds = {}
    /\ DOMAIN dispatched = {}

\* The (group, user) pair whose get_group_member_info handler h awaits.
LookupOf(h) == <<handlers[h].msg.gid, AtTarget(handlers[h].msg.segs[handlers[h].i])>>

Lookups == {h \in DOMAIN handlers : handlers[h].pc = "rpc_member"}

\* C22. Resolving an at segment for the same (group, user) twice within
\* the hour issues one get_group_member_info request, whatever the
\* interleaving of the handlers: no two requests for one pair are
\* outstanding together.
C22_OneLookupPerPair ==
    \A g, h \in Lookups : LookupOf(g) = LookupOf(h) => g = h

\* C23. The name cache and the set of seen ids are kept per connection:
\* what the other account's pipeline records changes nothing for this
\* account; in particular a name the other account cached is not returned
\* to this account, which still looks the member up.
C23_OtherAccountDoesNotInterfere ==
    [][\A k \in {<<"g1", User>>, <<"g1", Bot>>} :
          OtherAccountCaches(k) =>
              \A ev \in {GroupAt, GroupAtAgain, GroupAtSelf} :
                  /\ SegAwait(ev, ev.segs[1], memberCache')
                        = SegAwait(ev, ev.segs[1], memberCache)
                  /\ DroppedEarly(ev, selfId', processedMsgIds')
                        = DroppedEarly(ev, selfId, processedMsgIds)]_vars

\* The awaits of the segment loop.
SegmentAwaits == {"rpc_member", "rpc_forward", "rpc_file_url", "rpc_get_file",
                  "download_file"}

\* Segment j of msg is rendered with the help of a lookup: an at segment of
\* a group member whose name is not cached, a forward segment, a file segment.
NeedsLookup(msg, j, cache) ==
    \/ msg.segs[j] \in {"forward", "file_id", "file_url"}
    \/ /\ msg.segs[j] \in {"at_user", "at_self"}
       /\ msg.group
       /\ <<msg.gid, AtTarget(msg.segs[j])>> \notin cache

LaterLookups(msg, i, cache) ==
    {j \in (i + 1)..Len(msg.segs) : NeedsLookup(msg, j, cache)}

C25_AsStated ==
    [][\A s \in DOMAIN sockets, f \in WireFrames :
          (f.kind \in {"event", "null"} /\ OnFrame(s, f)) => last' = <<f.payload>>]_vars

\* C25. In the backoff client a heartbeat frame is never emitted to the
\* listeners, every other frame that parses to a value other than null is
\* emitted to them once, on arrival, and a frame that is no JSON text (or
\* is the text null) is dropped: socket, timers, counters, flags and the
\* listener's state stay as they are.
C25_FramesHandledByShape ==
    [][\A s \in DOMAIN sockets, f \in WireFrames :
          OnFrame(s, f) =>
            /\ f.kind = "heartbeat" =>
                    UNCHANGED <<config, handlers, selfId, processedMsgIds,
                                memberCache, dispatched, replied, last>>
            /\ f.kind = "event" => (last' = <<f.payload>> /\ onMessage(f.payload))
            /\ f.kind \in {"bad", "null"} =>
                    UNCHANGED <<ws, sockets, reconnectAttempts, reconnectTimer,
                                timers, isAlive, destroyed, calls, wire, config,
                                handlers, selfId, processedMsgIds, memberCache,
                                dispatched, replied, last>>]_vars

\* A frame that is no JSON text arrived on an open socket after a
\* reconnect, following a message that was emitted.
C25_Witness ==
    /\ arrived = <<[kind |-> "bad", payload |-> ApiResponse]>>
    /\ last = <<PrivateText>>
    /\ ws > 1
    /\ WsOpen

\* Something is left that leads to a connection: a socket that is
\* connecting, open or about to emit close, or an armed reconnect timer.
Recoverable ==
    \/ \E s \in DOMAIN sockets : IsLive(s)
    \/ ArmedTimers # {}

\* C26. In the backoff client, after a socket closed or failed without
\* disconnect() having been called, a new connection attempt is eventually
\* made (unless disconnect() is called first), and the client is never
\* without an open socket, a connecting socket, a closing socket and an
\* armed reconnect timer unless disconnect() was called.
C26_ReconnectsEventually ==
    /\ []((hostConnects > 0 /\ ~DisconnectCalled) => Recoverable)
    /\ \A s \in 1..(MaxLifeSockets - 1) :
          (/\ s \in DOMAIN sockets
           /\ sockets[s].rs \in {"closing", "closed"}
           /\ ~DisconnectCalled)
              ~> (Len(sockets) > s \/ DisconnectCalled)

\* The second socket failed while connecting, the third one is open, and
\* disconnect() was not called.
C26_Witness ==
    /\ Len(sockets) = 3
    /\ sockets[2].rs = "closed"
    /\ reconnectAttempts = 0
    /\ WsOpen
    /\ ~DisconnectCalled

CeilDiv(l, c) == (l + c - 1) \div c

RECURSIVE Concat(_)
Concat(chunks) ==
    IF chunks = <<>> THEN <<>> ELSE Head(chunks) \o Concat(Tail(chunks))

\* The chunks are within the limit and join to the text.
ChunksCoverText(chunks, text, limit) ==
    /\ \A i \in DOMAIN chunks : Len(chunks[i]) <= limit
    /\ Concat(chunks) = text

\* C27 as stated: ceil(L/C) chunks for every length L, 0 included.
C27_AsStated ==
    result # <<>> =>
        /\ Len(result[1]) = CeilDiv(Len(arg.text), arg.limit)
        /\ ChunksCoverText(result[1], arg.text, arg.limit)

\* C27. Chunking: for every body of length L >= 1 and limit C >= 1,
\* splitMessage returns ceil(L/C) chunks, and for the empty body one empty
\* chunk; each chunk has at most C characters and the chunks joined in
\* order are the body (L = C and L = C + 1 included).
C27_Chunking ==
    result # <<>> =>
        /\ Len(result[1]) = IF arg.text = <<>> THEN 1
                            ELSE CeilDiv(Len(arg.text), arg.limit)
        /\ ChunksCoverText(result[1], arg.text, arg.limit)

\* A body one character longer than the limit was split in two.
C27_Witness ==
    /\ result # <<>>
    /\ Len(arg.text) = arg.limit + 1
    /\ Len(result[1]) = 2

\* The text messages sent so far, in the order they were sent.
IsChunk(m) == ~m.tts
SentChunks == SelectSeq(outbox, IsChunk)

\* C28. For a text-only reply to a group that deliver splits into k >= 1
\* chunks, the k messages are sent in chunk order, the first one with the
\* at-mention of the sender in front and chunks 2..k without.
C28_OnlyFirstChunkMentions ==
    arg.kind = "group" =>
        LET chunks == splitMessage(arg.text, arg.limit)
        IN  /\ Len(SentChunks) <= Len(chunks)
            /\ \A i \in DOMAIN SentChunks :
                  /\ SentChunks[i].to.kind = "group"
                  /\ SentChunks[i].body = chunks[i]
                  /\ SentChunks[i].mention = (i = 1)
            /\ result # <<>> => Len(SentChunks) = Len(chunks)

\* A group reply of four characters under limit 2 has been delivered in
\* two messages.
C28_Witness ==
    /\ arg.kind = "group"
    /\ Len(arg.text) = 4
    /\ arg.limit = 2
    /\ result = <<"delivered">>
    /\ Len(SentChunks) = 2
    /\ SentChunks[1].mention
    /\ ~SentChunks[2].mention

DispatchFails(h) ==
    /\ h \in DOMAIN handlers
    /\ handlers[h].pc = "dispatch"
    /\ HandlerResume(h, FALSE)

\* The step leaves the listener as a successful dispatch does: the handler
\* is gone and nothing else of the account has changed.
HandlerEnds(h) ==
    /\ handlers' = RemoveAt(handlers, h)
    /\ UNCHANGED <<config, selfId, processedMsgIds, memberCache, dispatched,
                   replied>>

\* The step sent the message m and nothing else.
Sends(m) == outbox' = Append(outbox, m)

C31_RedirectsBounded ==
    (arg.url \in HttpUrls /\ download # <<>>) =>
        download[1].hops <= RedirectLimit

\* C39. downloadFile called with an http(s) url copies no file of the local
\* disk, and what it returns is null or a file with bytes received over
\* http(s).
C39_OnlyRemoteBytes ==
    (arg.url \in HttpUrls /\ download # <<>>) =>
        /\ "local" \notin download[1].files
        /\ result \in {<<>>, <<Null>>, <<Downloaded>>}

\* ---- add requests (claim C32)

\* C32. When an add request has arrived on an open connection, its approve
\* action has been sent if autoApproveRequests is on, and none has been
\* sent if it is off.
C32_RequestsApproved ==
    \A ev \in {FriendRequest, GroupRequest} :
        (arrived = <<[kind |-> "event", payload |-> ev]>> /\ WsOpen) =>
            (config.autoApproveRequests
                <=> \E i \in DOMAIN outbox : outbox[i].re = ev /\ outbox[i].approve)

\* ---- the Resolved Inbound Context (claim C33)

Normalised(text) ==
    /\ ~IsSpace(text[1])
    /\ ~IsSpace(text[Len(text)])
    /\ \A k \in DOMAIN text : text[k] # "\n"
    /\ \A k \in 1..(Len(text) - 1) : ~(IsSpace(text[k]) /\ IsSpace(text[k + 1]))

UpSockets == {s \in DOMAIN sockets : sockets[s].rs \in {"connecting", "open"}}

\* C34. With one connect() call of the host, at most one socket of the
\* client is connecting or open, and a socket is created only when every
\* earlier socket has closed.
C34_OneSocketAtATime ==
    /\ [](Cardinality(UpSockets) <= 1)
    /\ [][Len(sockets') > Len(sockets) =>
            \A s \in DOMAIN sockets : sockets[s].rs = "closed"]_vars

\* The third socket is open after the first two have closed.
C34_Witness ==
    /\ Len(sockets) = 3
    /\ sockets[1].rs = "closed"
    /\ sockets[2].rs = "closed"
    /\ sockets[3].rs = "open"
    /\ ws = 3

\* ---- the registry and the outbound (claims C35 and C36)

\* Call k is the latest start of its account.
LatestStart(k) ==
    \A j \in DOMAIN started : started[j].account = started[k].account => j <= k

\* C35. The registry is consistent with the account lifecycles: the client
\* of the latest start of an account stays registered until the stop handle
\* of that call is invoked.
C35_RunningClientRegistered ==
    \A k \in DOMAIN started :
        (LatestStart(k) /\ ~started[k].stopped) => clients[started[k].account] = k

\* C36. sendText and sendMedia report sent: true only when at least one
\* frame was written to the socket.
C36_SentMeansWritten ==
    (result # <<>> /\ result[1].sent) => result[1].written >= 1

\* ---- filters and lookups (claim C37)

\* The awaits that are an RPC to the backend or a file download.
LookupPoints == {"download_notice", "rpc_group_file_url", "rpc_member",
                 "rpc_forward", "rpc_file_url", "rpc_get_file", "download_file"}

\* The sender of ev is on the block list, or ev is of a group outside the
\* non-empty allow list.
Barred(ev) ==
    \/ ev.user \in config.blockedUsers
    \/ (ev.group /\ config.allowedGroups # {} /\ ev.gid \notin config.allowedGroups)

\* C37. A message of a blocked sender, or of a group outside a non-empty
\* allow list, causes no RPC to the backend and no file download: its
\* handler never waits for a member, forward or file lookup or a download.
C37_BarredCausesNoLookup ==
    \A h \in DOMAIN handlers :
        Barred(handlers[h].ev) => handlers[h].pc \notin LookupPoints

\* ---- groups without mention requirement (claim C38)

\* e passes the filters C38 lists: not of the account, not of a blocked
\* sender, of an allowed group, of an admin when an admin list is configured.
PassesListedFilters(e) ==
    /\ e.user \notin {Bot} \cup config.blockedUsers
    /\ (e.group /\ config.allowedGroups # {}) => e.gid \in config.allowedGroups
    /\ config.admins # {} => e.user \in config.admins

C40_NoIterationRepeats ==
    [][(splitting # <<>> /\ splitting' # <<>>)
          => splitting'[1].current # splitting[1].current]_vars

====
